---- MODULE Spec2Model ----
(***************************************************************************)
(* soft_matrix: the streaming upmix pipeline.                              *)
(*   Reader -> staging map -> Panning Averager -> Panner & Writer -> sink  *)
(* Worker threads run the loop of Upmixer::run_upmix_thread_int; every     *)
(* stage is translated from reader.rs, panning_averager.rs and             *)
(* panner_and_writer.rs.  Samples are identified by their absolute index,  *)
(* a transform by the window of sample indices it was computed from, and   *)
(* steering values are exact fixed-point numbers (1.0 is One).             *)
(***************************************************************************)
EXTENDS Integers, Sequences, FiniteSets, TLC

\* ---------------------------------------------------------------- bounds
\* Longest source, in frames, that the model explores.
MaxSamples == 12
\* Number of worker threads (the main thread included).
NumWorkers == 2

\* ------------------------------------------------------------- constants
\* upmixer.window_size: the first entry of WINDOW_SIZES.
window_size == 6
\* upmixer.window_midpoint
window_midpoint == window_size \div 2

Workers == 1..NumWorkers

\* Option<T>: None is the empty sequence, Some(x) the one-element sequence.
None == <<>>
Some(x) == <<x>>
\* A mutex that no worker holds.
Unlocked == 0
\* A padded (zero) input frame, pushed when the source iterator is exhausted.
ZeroSample == -1

\* ------------------------------------------------- PanningAverager::new
\* wavelength of bin k (transform_index k = sub_freq_ctr + 1)
wavelength(k) == window_size \div k
average_last_sample_ctr_lower_bounds(k) == (window_size - wavelength(k)) \div 2
average_last_sample_ctr_upper_bounds(k) ==
    average_last_sample_ctr_lower_bounds(k) + wavelength(k) - 1

RECURSIVE WavelengthProduct(_)
WavelengthProduct(k) == IF k = 0 THEN 1 ELSE wavelength(k) * WavelengthProduct(k - 1)
\* Fixed-point 1.0: divisible by every wavelength, so that multiplying by
\* pan_fraction_per_frequency = 1 / wavelength is exact.
One == WavelengthProduct(window_midpoint)
\* value * pan_fraction_per_frequencys[k]
TimesFraction(value, k) == value \div wavelength(k)

\* ------------------------------------------------------------ structs
FrequencyPans(ltr, btf) == [left_to_right |-> ltr, back_to_front |-> btf]

\* Two steering results of Matrix::steer for a whole window: every bin centred
\* in front, or every bin hard left and fully to the rear.
Centred == [k \in 1..window_midpoint |-> FrequencyPans(0, 0)]
RearLeft == [k \in 1..window_midpoint |-> FrequencyPans(-One, One)]

\* The source files explored, each given by the steering vectors that the
\* forward transform and Matrix::steer yield for the window ending at each
\* counter: a centred source, a rear-left source, and one that alternates.
Sources ==
    { [c \in 0..MaxSamples |-> Centred],
      [c \in 0..MaxSamples |-> RearLeft],
      [c \in 0..MaxSamples |-> IF c % 2 = 0 THEN RearLeft ELSE Centred] }

TransformedWindowAndPans(ctr, transformed, pans) ==
    [last_sample_ctr |-> ctr, left_transformed |-> transformed, frequency_pans |-> pans]

VARIABLES
    total_samples_to_write,   \* upmixer.total_samples_to_write (T)
    steering,                 \* the source: last_sample_ctr -> frequency_pans measured
    \* Reader (OpenWavReaderAndBuffer)
    stream_pos,               \* frames consumed from stream_wav_reader_iterator
    total_samples_read,
    left_buffer,              \* ring buffer; right/mono buffers move in lockstep
    \* PanningAverager
    transformed_window_and_pans_by_sample,   \* staging map, keyed by last_sample_ctr
    enqueue_and_average_state,               \* the worker holding this mutex, or Unlocked
    next_last_sample_ctr_to_enqueue,
    transformed_window_and_pans_queue,
    pan_averages,
    \* PannerAndWriter
    transformed_window_and_averaged_pans_queue,
    total_samples_written,
    sink,                     \* target_wav_writer: the frame stored at each absolute index
    enqueued,                 \* last_sample_ctr of every PannerAndWriter::enqueue call
    \* worker threads
    pc, rec, pending, exhausted,
    \* the process: main() and upmix()
    fault,                    \* what the environment makes fail in this run
    main_pc,                  \* position of the main thread
    message,                  \* the last line main or a worker printed
    exit_code,                \* None while the process runs, then Some(status)
    spawned,                  \* worker threads started by thread::spawn
    joined,                   \* join handles the main thread has joined
    flushed,                  \* target_wav_writer.flush() has returned Ok
    \* one call of a pure function
    arguments,                \* the arguments of the call
    returned                  \* None until the function has returned, then Some(value)

reader_vars == <<stream_pos, total_samples_read, left_buffer>>
averager_vars == <<next_last_sample_ctr_to_enqueue, transformed_window_and_pans_queue,
                   pan_averages>>
writer_vars == <<total_samples_written, sink>>
process_vars == <<fault, main_pc, message, exit_code, spawned, joined, flushed>>
call_vars == <<arguments, returned>>
vars == <<total_samples_to_write, steering, stream_pos, total_samples_read, left_buffer,
          transformed_window_and_pans_by_sample, enqueue_and_average_state,
          next_last_sample_ctr_to_enqueue, transformed_window_and_pans_queue,
          pan_averages, transformed_window_and_averaged_pans_queue,
          total_samples_written, sink, enqueued, pc, rec, pending, exhausted,
          fault, main_pc, message, exit_code, spawned, joined, flushed, arguments, returned>>

\* ---------------------------------------------------------------- Reader
\* stream_wav_reader_iterator.next(): the frame at position pos, or a zero
\* frame once the source is exhausted.
queue_next_sample(buffer, pos, total) ==
    Append(buffer, IF pos < total THEN pos ELSE ZeroSample)

RECURSIVE Preread(_, _, _)
Preread(n, pos, total) ==
    IF n = 0 THEN <<>>
    ELSE queue_next_sample(Preread(n - 1, pos - 1, total), pos - 1, total)

\* Reader::open pre-reads window_size - 1 frames.
ReaderOpen(total) ==
    /\ stream_pos = window_size - 1
    /\ total_samples_read = window_size - 1
    /\ left_buffer = Preread(window_size - 1, window_size - 1, total)

\* The worker loop seen on its own: upmix has started every thread (the main
\* thread is worker 1) and the environment makes nothing fail.
AllThreadsRunning ==
    /\ fault = "none"
    /\ main_pc = "run"
    /\ message = None
    /\ exit_code = None
    /\ spawned = Workers \ {1}
    /\ joined = {}
    /\ flushed = FALSE

\* No pure function is being called.
NoCall ==
    /\ arguments = None
    /\ returned = None

Init ==
    /\ total_samples_to_write \in window_size..MaxSamples
    /\ steering \in Sources
    /\ ReaderOpen(total_samples_to_write)
    /\ transformed_window_and_pans_by_sample = <<>>
    /\ enqueue_and_average_state = Unlocked
    /\ next_last_sample_ctr_to_enqueue = window_size - 1
    /\ transformed_window_and_pans_queue = <<>>
    /\ pan_averages = <<>>
    /\ transformed_window_and_averaged_pans_queue = <<>>
    /\ total_samples_written = 0
    /\ sink = <<>>
    /\ enqueued = <<>>
    /\ pc = [w \in Workers |-> "read"]
    /\ rec = [w \in Workers |-> None]
    /\ pending = [w \in Workers |-> <<>>]
    /\ exhausted = [w \in Workers |-> FALSE]
    /\ AllThreadsRunning
    /\ NoCall

\* Mutant of ReadNone: the counter is incremented and a frame queued before
\* the test for exhausted input.
ReadNoneAfterIncrement(w) ==
    /\ pc[w] = "read"
    /\ total_samples_read >= total_samples_to_write
    /\ total_samples_read' = total_samples_read + 1
    /\ stream_pos' = stream_pos + 1
    /\ left_buffer' = Tail(queue_next_sample(left_buffer, stream_pos, total_samples_to_write))
    /\ rec' = [rec EXCEPT ![w] = None]
    /\ exhausted' = [exhausted EXCEPT ![w] = TRUE]
    /\ pc' = [pc EXCEPT ![w] = "average"]
    /\ UNCHANGED <<process_vars, call_vars, total_samples_to_write, steering,
                   transformed_window_and_pans_by_sample, enqueue_and_average_state,
                   averager_vars, transformed_window_and_averaged_pans_queue,
                   writer_vars, enqueued, pending>>

\* Reader::read_transform_and_measure_pans, input exhausted: Ok(None).  The
\* worker leaves its loop and makes the two trailing calls.
ReadNone(w) ==
    /\ pc[w] = "read"
    /\ total_samples_read >= total_samples_to_write
    /\ rec' = [rec EXCEPT ![w] = None]
    /\ exhausted' = [exhausted EXCEPT ![w] = TRUE]
    /\ pc' = [pc EXCEPT ![w] = "average"]
    /\ UNCHANGED <<process_vars, call_vars, total_samples_to_write, steering, reader_vars,
                   transformed_window_and_pans_by_sample, enqueue_and_average_state,
                   averager_vars, transformed_window_and_averaged_pans_queue,
                   writer_vars, enqueued, pending>>

\* Mutant of ReadWindow: the ring buffer is copied before the next frame is
\* queued.
ReadWindowCopyBeforeQueue(w) ==
    /\ pc[w] = "read"
    /\ total_samples_read < total_samples_to_write
    /\ LET last_sample_ctr == total_samples_read
           filled == queue_next_sample(left_buffer, stream_pos, total_samples_to_write)
       IN /\ total_samples_read' = total_samples_read + 1
          /\ stream_pos' = stream_pos + 1
          /\ left_buffer' = Tail(filled)
          /\ rec' = [rec EXCEPT ![w] =
                       Some(TransformedWindowAndPans(last_sample_ctr, Some(left_buffer),
                                                     steering[last_sample_ctr]))]
    /\ pc' = [pc EXCEPT ![w] = "insert"]
    /\ UNCHANGED <<process_vars, call_vars, total_samples_to_write, steering, transformed_window_and_pans_by_sample,
                   enqueue_and_average_state, averager_vars,
                   transformed_window_and_averaged_pans_queue, writer_vars,
                   enqueued, pending, exhausted>>

\* Reader::read_transform_and_measure_pans, a window is available: the
\* critical section under the reader lock, then the forward transform and the
\* steering of every bin on the worker's own copy.
ReadWindow(w) ==
    /\ pc[w] = "read"
    /\ total_samples_read < total_samples_to_write
    /\ LET last_sample_ctr == total_samples_read
           filled == queue_next_sample(left_buffer, stream_pos, total_samples_to_write)
       IN /\ total_samples_read' = total_samples_read + 1
          /\ stream_pos' = stream_pos + 1
          /\ left_buffer' = Tail(filled)
          /\ rec' = [rec EXCEPT ![w] =
                       Some(TransformedWindowAndPans(last_sample_ctr, Some(filled),
                                                     steering[last_sample_ctr]))]
    /\ pc' = [pc EXCEPT ![w] = "insert"]
    /\ UNCHANGED <<process_vars, call_vars, total_samples_to_write, steering, transformed_window_and_pans_by_sample,
                   enqueue_and_average_state, averager_vars,
                   transformed_window_and_averaged_pans_queue, writer_vars,
                   enqueued, pending, exhausted>>

\* HashMap::insert
MapInsert(map, key, value) ==
    [k \in (DOMAIN map) \cup {key} |-> IF k = key THEN value ELSE map[k]]
\* Mutant of MapRemove: the entry is looked up (get) but not removed.
MapKeep(map, key) == map
\* HashMap::remove, the map that is left
MapRemove(map, key) == [k \in (DOMAIN map) \ {key} |-> map[k]]

\* PanningAverager::enqueue_transformed_window_and_pans
EnqueueTransformedWindowAndPans(w) ==
    /\ pc[w] = "insert"
    /\ transformed_window_and_pans_by_sample' =
          MapInsert(transformed_window_and_pans_by_sample, rec[w][1].last_sample_ctr,
                    rec[w][1])
    /\ rec' = [rec EXCEPT ![w] = None]
    /\ pc' = [pc EXCEPT ![w] = "average"]
    /\ UNCHANGED <<process_vars, call_vars, total_samples_to_write, steering, reader_vars, enqueue_and_average_state,
                   averager_vars, transformed_window_and_averaged_pans_queue,
                   writer_vars, enqueued, pending, exhausted>>

\* ------------------------------------------------------ PanningAverager
\* try_lock fails: another worker is inside enqueue_and_average; return.
EnqueueAndAverageSkip(w) ==
    /\ pc[w] = "average"
    /\ enqueue_and_average_state # Unlocked
    /\ pc' = [pc EXCEPT ![w] = "pop"]
    /\ UNCHANGED <<process_vars, call_vars, total_samples_to_write, steering, reader_vars,
                   transformed_window_and_pans_by_sample, enqueue_and_average_state,
                   averager_vars, transformed_window_and_averaged_pans_queue,
                   writer_vars, enqueued, rec, pending, exhausted>>

\* Mutant of EnqueueAndAverageLock: a blocking-free lock that does not look
\* at the current owner.
EnqueueAndAverageLockUnchecked(w) ==
    /\ pc[w] = "average"
    /\ enqueue_and_average_state' = w
    /\ pc' = [pc EXCEPT ![w] = "drain"]
    /\ UNCHANGED <<process_vars, call_vars, total_samples_to_write, steering, reader_vars,
                   transformed_window_and_pans_by_sample, averager_vars,
                   transformed_window_and_averaged_pans_queue, writer_vars,
                   enqueued, rec, pending, exhausted>>

\* try_lock succeeds.
EnqueueAndAverageLock(w) ==
    /\ pc[w] = "average"
    /\ enqueue_and_average_state = Unlocked
    /\ enqueue_and_average_state' = w
    /\ pc' = [pc EXCEPT ![w] = "drain"]
    /\ UNCHANGED <<process_vars, call_vars, total_samples_to_write, steering, reader_vars,
                   transformed_window_and_pans_by_sample, averager_vars,
                   transformed_window_and_averaged_pans_queue, writer_vars,
                   enqueued, rec, pending, exhausted>>

Placeholder(ctr, pans) == TransformedWindowAndPans(ctr, None, pans)

\* Mutant of SeedFirst: pads up to window_midpoint + 1 entries, which puts a
\* leading placeholder at queue position window_midpoint.
RECURSIVE SeedFirstPastMidpoint(_, _)
SeedFirstPastMidpoint(queue, pans) ==
    IF Len(queue) < window_midpoint + 1
    THEN SeedFirstPastMidpoint(Append(queue, Placeholder(0, pans)), pans)
    ELSE queue

\* Mutant of SeedFirst: pads up to window_midpoint entries.
RECURSIVE SeedFirstOneMore(_, _)
SeedFirstOneMore(queue, pans) ==
    IF Len(queue) < window_midpoint
    THEN SeedFirstOneMore(Append(queue, Placeholder(0, pans)), pans)
    ELSE queue

\* "Special case: First transform": pad the queue up to window_midpoint - 1
\* entries with copies of the first record's pans.
RECURSIVE SeedFirst(_, _)
SeedFirst(queue, pans) ==
    IF Len(queue) < window_midpoint - 1
    THEN SeedFirst(Append(queue, Placeholder(0, pans)), pans)
    ELSE queue

\* Mutant of SeedLast: the trailing placeholders keep the last record's
\* counter instead of counting on.
RECURSIVE SeedLastSameCounter(_, _, _)
SeedLastSameCounter(queue, last, n) ==
    IF n = 0 THEN <<queue, last>>
    ELSE SeedLastSameCounter(Append(queue, last),
                             Placeholder(last.last_sample_ctr, last.frequency_pans), n - 1)

\* "Special case: Last transform": n rounds of push-and-replace; yields the
\* queue and the record that is left to push.
RECURSIVE SeedLast(_, _, _)
SeedLast(queue, last, n) ==
    IF n = 0 THEN <<queue, last>>
    ELSE SeedLast(Append(queue, last),
                  Placeholder(last.last_sample_ctr + 1, last.frequency_pans), n - 1)

\* Sum of field * fraction over the Rust range lo..hi (hi exclusive) of
\* 0-based queue positions, for bin k.
RECURSIVE SumPans(_, _, _, _, _)
SumPans(queue, k, lo, hi, field) ==
    IF lo >= hi THEN 0
    ELSE TimesFraction(queue[lo + 1].frequency_pans[k][field], k)
         + SumPans(queue, k, lo + 1, hi, field)

\* "Special case: Pre-seed averages"
PreSeedAverages(queue) ==
    [k \in 1..window_midpoint |->
        FrequencyPans(
            SumPans(queue, k, average_last_sample_ctr_lower_bounds(k),
                    average_last_sample_ctr_upper_bounds(k) - 1, "left_to_right"),
            SumPans(queue, k, average_last_sample_ctr_lower_bounds(k),
                    average_last_sample_ctr_upper_bounds(k) - 1, "back_to_front"))]

\* Mutant of EnqueueLoop: the averages are seeded again for every record
\* from window_size + window_midpoint on.
RECURSIVE EnqueueLoopReseed(_, _)
EnqueueLoopReseed(st, total) ==
    IF st.next \notin DOMAIN st.map THEN st
    ELSE LET removed == st.map[st.next]
             q1 == IF st.next = window_size - 1
                   THEN SeedFirst(st.queue, removed.frequency_pans)
                   ELSE st.queue
             seeded == IF st.next = total - 1
                       THEN SeedLast(q1, removed, window_midpoint)
                       ELSE <<q1, removed>>
             q2 == Append(seeded[1], seeded[2])
             averages == IF st.next >= window_size + window_midpoint
                         THEN st.averages \o PreSeedAverages(q2)
                         ELSE st.averages
         IN EnqueueLoopReseed([map |-> MapRemove(st.map, st.next), next |-> st.next + 1,
                               queue |-> q2, averages |-> averages], total)

\* The 'enqueue loop: move records out of the staging map while the next
\* counter is present.  st = [map, next, queue, averages].
RECURSIVE EnqueueLoop(_, _)
EnqueueLoop(st, total) ==
    IF st.next \notin DOMAIN st.map THEN st
    ELSE LET removed == st.map[st.next]
             q1 == IF st.next = window_size - 1
                   THEN SeedFirst(st.queue, removed.frequency_pans)
                   ELSE st.queue
             seeded == IF st.next = total - 1
                       THEN SeedLast(q1, removed, window_midpoint)
                       ELSE <<q1, removed>>
             q2 == Append(seeded[1], seeded[2])
             averages == IF st.next = window_size + window_midpoint
                         THEN st.averages \o PreSeedAverages(q2)
                         ELSE st.averages
         IN EnqueueLoop([map |-> MapRemove(st.map, st.next), next |-> st.next + 1,
                         queue |-> q2, averages |-> averages], total)

\* enqueue_and_average, first part: drain the staging map under its lock,
\* then the guard against no averaging.
EnqueueAndAverageDrain(w) ==
    /\ pc[w] = "drain"
    /\ LET st == EnqueueLoop([map |-> transformed_window_and_pans_by_sample,
                              next |-> next_last_sample_ctr_to_enqueue,
                              queue |-> transformed_window_and_pans_queue,
                              averages |-> pan_averages], total_samples_to_write)
       IN /\ transformed_window_and_pans_by_sample' = st.map
          /\ next_last_sample_ctr_to_enqueue' = st.next
          /\ transformed_window_and_pans_queue' = st.queue
          /\ pan_averages' = st.averages
          /\ IF Len(st.averages) = 0
             THEN /\ enqueue_and_average_state' = Unlocked
                  /\ pc' = [pc EXCEPT ![w] = "pop"]
             ELSE /\ enqueue_and_average_state' = enqueue_and_average_state
                  /\ pc' = [pc EXCEPT ![w] = "emit"]
    /\ UNCHANGED <<process_vars, call_vars, total_samples_to_write, steering, reader_vars,
                   transformed_window_and_averaged_pans_queue, writer_vars,
                   enqueued, rec, pending, exhausted>>

\* "Add newly-added pans (in the queue) to the averages"
AddNewPans(averages, queue) ==
    [k \in 1..window_midpoint |->
        [averages[k] EXCEPT !.back_to_front =
            @ + TimesFraction(
                  queue[average_last_sample_ctr_upper_bounds(k) + 1]
                      .frequency_pans[k].back_to_front, k)]]

\* "Remove the unneeded pans"
RemoveOldPans(averages, queue) ==
    [k \in 1..window_midpoint |->
        [averages[k] EXCEPT !.back_to_front =
            @ - TimesFraction(
                  queue[average_last_sample_ctr_lower_bounds(k) + 1]
                      .frequency_pans[k].back_to_front, k)]]

\* Mutant of PannerEnqueue: push_front instead of push_back.
PannerEnqueueFront(deque, record) == <<record>> \o deque
\* PannerAndWriter::enqueue
PannerEnqueue(deque, record) == Append(deque, record)

\* enqueue_and_average, the averaging loop is over: release the mutex.
EnqueueAndAverageReturn(w) ==
    /\ pc[w] = "emit"
    /\ Len(transformed_window_and_pans_queue) < window_size
    /\ enqueue_and_average_state' = Unlocked
    /\ pc' = [pc EXCEPT ![w] = "pop"]
    /\ UNCHANGED <<process_vars, call_vars, total_samples_to_write, steering, reader_vars,
                   transformed_window_and_pans_by_sample, averager_vars,
                   transformed_window_and_averaged_pans_queue, writer_vars,
                   enqueued, rec, pending, exhausted>>

\* Mutant of EnqueueAndAverageEmit: the queue is not cleared after the last
\* transform.
EnqueueAndAverageEmitNoClear(w) ==
    /\ pc[w] = "emit"
    /\ Len(transformed_window_and_pans_queue) >= window_size
    /\ LET added == AddNewPans(pan_averages, transformed_window_and_pans_queue)
           middle == transformed_window_and_pans_queue[window_midpoint + 1]
           last_transform == middle.last_sample_ctr = total_samples_to_write - 1
           \* Option::take leaves None behind
           taken == [transformed_window_and_pans_queue
                       EXCEPT ![window_midpoint + 1].left_transformed = None]
       IN /\ transformed_window_and_averaged_pans_queue' =
                PannerEnqueue(transformed_window_and_averaged_pans_queue,
                              TransformedWindowAndPans(middle.last_sample_ctr,
                                                       middle.left_transformed, added))
          /\ enqueued' = Append(enqueued, middle.last_sample_ctr)
          /\ IF last_transform
             THEN /\ transformed_window_and_pans_queue' = taken
                  /\ pan_averages' = added
                  /\ enqueue_and_average_state' = Unlocked
                  /\ pc' = [pc EXCEPT ![w] = "pop"]
             ELSE /\ pan_averages' = RemoveOldPans(added, taken)
                  /\ transformed_window_and_pans_queue' = Tail(taken)
                  /\ enqueue_and_average_state' = enqueue_and_average_state
                  /\ pc' = pc
    /\ next_last_sample_ctr_to_enqueue' = next_last_sample_ctr_to_enqueue
    /\ UNCHANGED <<process_vars, call_vars, total_samples_to_write, steering, reader_vars,
                   transformed_window_and_pans_by_sample, writer_vars,
                   rec, pending, exhausted>>

\* enqueue_and_average, one iteration of the averaging loop.
EnqueueAndAverageEmit(w) ==
    /\ pc[w] = "emit"
    /\ Len(transformed_window_and_pans_queue) >= window_size
    /\ LET added == AddNewPans(pan_averages, transformed_window_and_pans_queue)
           middle == transformed_window_and_pans_queue[window_midpoint + 1]
           last_transform == middle.last_sample_ctr = total_samples_to_write - 1
           \* Option::take leaves None behind
           taken == [transformed_window_and_pans_queue
                       EXCEPT ![window_midpoint + 1].left_transformed = None]
       IN /\ transformed_window_and_averaged_pans_queue' =
                PannerEnqueue(transformed_window_and_averaged_pans_queue,
                              TransformedWindowAndPans(middle.last_sample_ctr,
                                                       middle.left_transformed, added))
          /\ enqueued' = Append(enqueued, middle.last_sample_ctr)
          /\ IF last_transform
             THEN /\ transformed_window_and_pans_queue' = <<>>
                  /\ pan_averages' = added
                  /\ enqueue_and_average_state' = Unlocked
                  /\ pc' = [pc EXCEPT ![w] = "pop"]
             ELSE /\ pan_averages' = RemoveOldPans(added, taken)
                  /\ transformed_window_and_pans_queue' = Tail(taken)
                  /\ enqueue_and_average_state' = enqueue_and_average_state
                  /\ pc' = pc
    /\ next_last_sample_ctr_to_enqueue' = next_last_sample_ctr_to_enqueue
    /\ UNCHANGED <<process_vars, call_vars, total_samples_to_write, steering, reader_vars,
                   transformed_window_and_pans_by_sample, writer_vars,
                   rec, pending, exhausted>>

\* ------------------------------------------------------ PannerAndWriter
\* A write_samples_in_window call: absolute index and position in the
\* inverse-transformed window.
WriteCall(sample_ctr, sample_in_transform) ==
    [sample_ctr |-> sample_ctr, sample_in_transform |-> sample_in_transform]

\* Mutant of SamplesToWrite: the end-of-file case leaves out
\* first_sample_in_transform.
SamplesToWriteNoOffset(last_sample_ctr, total) ==
    LET sample_ctr == last_sample_ctr - window_midpoint
    IN IF sample_ctr = window_midpoint
       THEN [i \in 1..sample_ctr |-> WriteCall(i - 1, i - 1)]
       ELSE IF last_sample_ctr = total - 1
       THEN [i \in 1..(window_size - window_midpoint) |->
                WriteCall(window_midpoint + i - 1, window_midpoint + i - 1)]
       ELSE <<WriteCall(sample_ctr, window_midpoint)>>

\* Mutant of SamplesToWrite: the end-of-file case writes the whole last
\* window, 0..window_size, instead of its upper half.
SamplesToWriteWholeLastWindow(last_sample_ctr, total) ==
    LET sample_ctr == last_sample_ctr - window_midpoint
    IN IF sample_ctr = window_midpoint
       THEN [i \in 1..sample_ctr |-> WriteCall(i - 1, i - 1)]
       ELSE IF last_sample_ctr = total - 1
       THEN [i \in 1..window_size |-> WriteCall((total - window_size) + (i - 1), i - 1)]
       ELSE <<WriteCall(sample_ctr, window_midpoint)>>

\* Mutant of SamplesToWrite: the beginning-of-file loop runs over
\* 0..=sample_ctr, one frame more.
SamplesToWriteInclusiveFirst(last_sample_ctr, total) ==
    LET sample_ctr == last_sample_ctr - window_midpoint
    IN IF sample_ctr = window_midpoint
       THEN [i \in 1..(sample_ctr + 1) |-> WriteCall(i - 1, i - 1)]
       ELSE IF last_sample_ctr = total - 1
       THEN [i \in 1..(window_size - window_midpoint) |->
                WriteCall((total - window_size) + (window_midpoint + i - 1),
                          window_midpoint + i - 1)]
       ELSE <<WriteCall(sample_ctr, window_midpoint)>>

\* The write_samples_in_window calls made for a record, in order
\* (the three-way branch on sample_ctr).
SamplesToWrite(last_sample_ctr, total) ==
    LET sample_ctr == last_sample_ctr - window_midpoint
    IN IF sample_ctr = window_midpoint
       THEN [i \in 1..sample_ctr |-> WriteCall(i - 1, i - 1)]
       ELSE IF last_sample_ctr = total - 1
       THEN [i \in 1..(window_size - window_midpoint) |->
                WriteCall((total - window_size) + (window_midpoint + i - 1),
                          window_midpoint + i - 1)]
       ELSE <<WriteCall(sample_ctr, window_midpoint)>>

\* pop_front() returned None: break 'transform_and_write.  The worker goes
\* back to the Reader, or returns when it was making its trailing calls.
PopNone(w) ==
    /\ pc[w] = "pop"
    /\ transformed_window_and_averaged_pans_queue = <<>>
    /\ pc' = [pc EXCEPT ![w] = IF exhausted[w] THEN "done" ELSE "read"]
    /\ UNCHANGED <<process_vars, call_vars, total_samples_to_write, steering, reader_vars,
                   transformed_window_and_pans_by_sample, enqueue_and_average_state,
                   averager_vars, transformed_window_and_averaged_pans_queue,
                   writer_vars, enqueued, rec, pending, exhausted>>

\* pop_front() returned a record: steer, inverse-transform, and decide which
\* samples to write.  A record without transforms makes expect() panic.
PopRecord(w) ==
    /\ pc[w] = "pop"
    /\ transformed_window_and_averaged_pans_queue # <<>>
    /\ LET transformed_window_and_pans == Head(transformed_window_and_averaged_pans_queue)
       IN /\ transformed_window_and_averaged_pans_queue' =
                Tail(transformed_window_and_averaged_pans_queue)
          /\ rec' = [rec EXCEPT ![w] = Some(transformed_window_and_pans)]
          /\ IF transformed_window_and_pans.left_transformed = None
             THEN /\ pc' = [pc EXCEPT ![w] = "panicked"]
                  /\ pending' = pending
             ELSE /\ pc' = [pc EXCEPT ![w] = "write"]
                  /\ pending' = [pending EXCEPT ![w] =
                        SamplesToWrite(transformed_window_and_pans.last_sample_ctr,
                                       total_samples_to_write)]
    /\ UNCHANGED <<process_vars, call_vars, total_samples_to_write, steering, reader_vars,
                   transformed_window_and_pans_by_sample, enqueue_and_average_state,
                   averager_vars, writer_vars, enqueued, exhausted>>

\* RandomAccessWavWriter::write_samples: the frame stored at an absolute index.
write_samples(file, sample_ctr, frame) ==
    [i \in (DOMAIN file) \cup {sample_ctr} |-> IF i = sample_ctr THEN frame ELSE file[i]]

\* PannerAndWriter::write_samples_in_window, under the writer_state lock.
\* The frame written is the given position of this record's window.
WriteSamplesInWindow(w) ==
    /\ pc[w] = "write"
    /\ pending[w] # <<>>
    /\ LET call == Head(pending[w])
       IN sink' = write_samples(sink, call.sample_ctr,
                    [sample_in_transform |-> call.sample_in_transform,
                     last_sample_ctr |-> rec[w][1].last_sample_ctr,
                     sample |-> rec[w][1].left_transformed[1][call.sample_in_transform + 1]])
    /\ total_samples_written' = total_samples_written + 1
    /\ pending' = [pending EXCEPT ![w] = Tail(@)]
    /\ UNCHANGED <<process_vars, call_vars, total_samples_to_write, steering, reader_vars,
                   transformed_window_and_pans_by_sample, enqueue_and_average_state,
                   averager_vars, transformed_window_and_averaged_pans_queue,
                   enqueued, pc, rec, exhausted>>

\* Logger::log_status after the record's samples are written; the record is
\* dropped and the loop pops again.
LogStatus(w) ==
    /\ pc[w] = "write"
    /\ pending[w] = <<>>
    /\ rec' = [rec EXCEPT ![w] = None]
    /\ pc' = [pc EXCEPT ![w] = "pop"]
    /\ UNCHANGED <<process_vars, call_vars, total_samples_to_write, steering, reader_vars,
                   transformed_window_and_pans_by_sample, enqueue_and_average_state,
                   averager_vars, transformed_window_and_averaged_pans_queue,
                   writer_vars, enqueued, pending, exhausted>>

\* ------------------------------------------------ Upmixer worker threads
\* One step of one worker of run_upmix_thread_int.
WorkerStep(w) ==
    \/ ReadNone(w)
    \/ ReadWindow(w)
    \/ EnqueueTransformedWindowAndPans(w)
    \/ EnqueueAndAverageSkip(w)
    \/ EnqueueAndAverageLock(w)
    \/ EnqueueAndAverageDrain(w)
    \/ EnqueueAndAverageEmit(w)
    \/ EnqueueAndAverageReturn(w)
    \/ PopNone(w)
    \/ PopRecord(w)
    \/ WriteSamplesInWindow(w)
    \/ LogStatus(w)

Next == \E w \in Workers : WorkerStep(w)

Spec == Init /\ [][Next]_vars

\* Every worker thread has returned from run_upmix_thread.
AllDone == \A w \in Workers : pc[w] = "done"

\* ------------------------------------------------------------- helpers
Indices(file) == DOMAIN file
\* A worker is inside the body of enqueue_and_average.
InEnqueueAndAverage(w) == pc[w] \in {"drain", "emit"}
\* A worker is about to make a write_samples_in_window call.
Writing(w) == pc[w] = "write" /\ pending[w] # <<>>

\* C1: when every worker has returned, every absolute sample index of
\* 0..T-1 has been written to the sink.
C1_AllSamplesWritten ==
    AllDone => \A n \in 0..(total_samples_to_write - 1) : n \in Indices(sink)

C3_NoFrameWrittenTwice ==
    /\ total_samples_written = Cardinality(Indices(sink))
    /\ \A w \in Workers :
          Writing(w) => Head(pending[w]).sample_ctr \notin Indices(sink)
    /\ \A w1, w2 \in Workers :
          (w1 # w2 /\ rec[w1] # None /\ rec[w2] # None)
              => rec[w1][1].last_sample_ctr # rec[w2][1].last_sample_ctr

\* C3 witness: the first emitting record, middle records and the last record
\* have all been written by workers that have returned.
C3_Witness ==
    /\ AllDone
    /\ total_samples_to_write >= 2 * window_size
    /\ {0, window_midpoint + 1, total_samples_to_write - 1} \subseteq Indices(sink)

\* C4: the counter total_samples_written reaches T before the workers stop,
\* so that total_samples_written >= total_samples_to_write holds in the end.
C4_WrittenReachesTotal ==
    AllDone => total_samples_written >= total_samples_to_write

\* Arithmetic mean of one component of the steering vectors of bin k over
\* the inclusive 0-based queue positions lower[k]..upper[k].
RECURSIVE SumField(_, _, _, _, _)
SumField(queue, k, lo, hi, field) ==
    IF lo > hi THEN 0
    ELSE queue[lo + 1].frequency_pans[k][field] + SumField(queue, k, lo + 1, hi, field)

MeanPans(queue, k) ==
    FrequencyPans(
        SumField(queue, k, average_last_sample_ctr_lower_bounds(k),
                 average_last_sample_ctr_upper_bounds(k), "left_to_right") \div wavelength(k),
        SumField(queue, k, average_last_sample_ctr_lower_bounds(k),
                 average_last_sample_ctr_upper_bounds(k), "back_to_front") \div wavelength(k))

\* C5: at every emission and for every bin k, the emitted pan_averages[k]
\* equals the arithmetic mean of the steering vectors at queue positions
\* lower[k]..upper[k] at that moment.
C5_EmittedAveragesAreMeans ==
    [][enqueued' # enqueued =>
          LET emitted == transformed_window_and_averaged_pans_queue'[
                             Len(transformed_window_and_averaged_pans_queue')]
          IN \A k \in 1..window_midpoint :
                emitted.frequency_pans[k] = MeanPans(transformed_window_and_pans_queue, k)]_vars

\* Counters of the queue entries that still hold their transforms, in order.
RECURSIVE RealCounters(_)
RealCounters(queue) ==
    IF queue = <<>> THEN <<>>
    ELSE (IF Head(queue).left_transformed # None
          THEN <<Head(queue).last_sample_ctr>> ELSE <<>>) \o RealCounters(Tail(queue))

\* C6: records leave the staging map for the averager queue in consecutive
\* increasing last_sample_ctr order starting at W-1: each drain moves exactly
\* the counters next..next'-1, in that order, stops at the first missing
\* counter, and a record whose predecessor is missing stays in staging.
C6_StagedRecordsReleasedInSequence ==
    /\ [](\A c \in DOMAIN transformed_window_and_pans_by_sample :
              c >= next_last_sample_ctr_to_enqueue)
    /\ [](next_last_sample_ctr_to_enqueue >= window_size - 1)
    /\ [][LET moved == (DOMAIN transformed_window_and_pans_by_sample)
                         \ (DOMAIN transformed_window_and_pans_by_sample')
              from == next_last_sample_ctr_to_enqueue
              to == next_last_sample_ctr_to_enqueue'
          IN /\ moved = from..(to - 1)
             /\ to >= from
             /\ moved # {} =>
                   /\ to \notin DOMAIN transformed_window_and_pans_by_sample'
                   /\ RealCounters(transformed_window_and_pans_queue')
                        = RealCounters(transformed_window_and_pans_queue)
                            \o [i \in 1..(to - from) |-> from + i - 1]]_vars

\* C6 witness: records have been moved to the queue, and a record that
\* arrived ahead of its predecessor is waiting in the staging map.
C6_Witness ==
    /\ next_last_sample_ctr_to_enqueue > window_size
    /\ next_last_sample_ctr_to_enqueue \notin DOMAIN transformed_window_and_pans_by_sample
    /\ next_last_sample_ctr_to_enqueue + 1 \in DOMAIN transformed_window_and_pans_by_sample

\* C7: at most one worker at a time is inside enqueue_and_average, and it is
\* the owner of the mutex; a worker whose try-lock fails can always take its
\* step, which changes neither the averager state, the staging map nor the
\* panner's deque.
C7_AveragingIsExclusive ==
    /\ [](\A w1, w2 \in Workers :
              (InEnqueueAndAverage(w1) /\ InEnqueueAndAverage(w2)) => w1 = w2)
    /\ [](\A w \in Workers : InEnqueueAndAverage(w) => enqueue_and_average_state = w)
    /\ [](\A w \in Workers : pc[w] = "average" => ENABLED WorkerStep(w))
    /\ [][\A w \in Workers :
            (pc[w] = "average" /\ enqueue_and_average_state # Unlocked /\ pc'[w] # pc[w])
                => /\ pc'[w] = "pop"
                   /\ UNCHANGED <<averager_vars, enqueue_and_average_state,
                                  transformed_window_and_pans_by_sample,
                                  transformed_window_and_averaged_pans_queue>>]_vars

\* C7 witness: one worker is in the averaging loop, and another has skipped
\* enqueue_and_average although the record it inserted is the next to enqueue.
C7_Witness ==
    \E w1, w2 \in Workers :
        /\ pc[w1] = "emit"
        /\ pc[w2] = "pop"
        /\ next_last_sample_ctr_to_enqueue \in DOMAIN transformed_window_and_pans_by_sample

\* C8 (as stated): each queue entry's last_sample_ctr equals its
\* predecessor's plus one.
C8_QueueContiguous ==
    \A i \in 2..Len(transformed_window_and_pans_queue) :
        transformed_window_and_pans_queue[i].last_sample_ctr
            = transformed_window_and_pans_queue[i - 1].last_sample_ctr + 1

\* C8 (amended): each queue entry's last_sample_ctr equals its predecessor's
\* plus one, except after a leading placeholder, whose counter is the dummy 0.
C8_QueueContiguousAfterPlaceholders ==
    \A i \in 2..Len(transformed_window_and_pans_queue) :
        \/ transformed_window_and_pans_queue[i - 1].last_sample_ctr = 0
        \/ transformed_window_and_pans_queue[i].last_sample_ctr
              = transformed_window_and_pans_queue[i - 1].last_sample_ctr + 1

\* C8 witness: the queue holds leading placeholders, records and the trailing
\* placeholders that follow the last record.
C8_Witness ==
    /\ Len(transformed_window_and_pans_queue) >= window_size
    /\ Head(transformed_window_and_pans_queue).last_sample_ctr = 0
    /\ transformed_window_and_pans_queue[Len(transformed_window_and_pans_queue)]
          .last_sample_ctr >= total_samples_to_write

\* C9: records are appended to the Panner & Writer's deque in strictly
\* increasing last_sample_ctr order: the enqueue calls are increasing, the
\* deque holds the most recent of them in call order, and every record a
\* worker has popped precedes those still in the deque.
C9_PannerReceivesInOrder ==
    /\ \A i, j \in DOMAIN enqueued : i < j => enqueued[i] < enqueued[j]
    /\ LET deque == transformed_window_and_averaged_pans_queue
       IN /\ Len(deque) <= Len(enqueued)
          /\ \A i \in DOMAIN deque :
                deque[i].last_sample_ctr = enqueued[Len(enqueued) - Len(deque) + i]
          /\ \A w \in Workers :
                pc[w] \in {"write", "panicked"} =>
                    \A i \in DOMAIN deque :
                        rec[w][1].last_sample_ctr < deque[i].last_sample_ctr

\* C9 witness: several records wait in the deque while a worker holds an
\* earlier one.
C9_Witness ==
    /\ Len(transformed_window_and_averaged_pans_queue) >= 2
    /\ \E w \in Workers : pc[w] = "write"

\* C10: every call of read_transform_and_measure_pans that finds
\* total_samples_read < T returns the record with last_sample_ctr =
\* total_samples_read and advances the counter by one, so the counters W-1..T-1
\* go out once each in lock order; a call made once total_samples_read >= T
\* returns no record and leaves the counter and the ring buffers unchanged.
C10_ReaderHandsOutCountersOnce ==
    /\ [](total_samples_read \in (window_size - 1)..total_samples_to_write)
    /\ [](Len(left_buffer) = window_size - 1)
    /\ [][\A w \in Workers :
            (pc[w] = "read" /\ pc'[w] # "read") =>
                IF total_samples_read < total_samples_to_write
                THEN /\ rec'[w] # None
                     /\ rec'[w][1].last_sample_ctr = total_samples_read
                     /\ total_samples_read' = total_samples_read + 1
                ELSE /\ rec'[w] = None
                     /\ UNCHANGED reader_vars]_vars
    /\ [][total_samples_read' # total_samples_read =>
            \E w \in Workers : pc[w] = "read" /\ rec'[w] # None]_vars

\* C10 witness: every counter up to T-1 has been handed out and a worker has
\* been told that the input is exhausted.
C10_Witness ==
    /\ total_samples_to_write > window_size
    /\ total_samples_read = total_samples_to_write
    /\ \E w \in Workers : exhausted[w] /\ pc[w] = "average"

\* C11: every record the Reader creates (last_sample_ctr from W-1 to T-1)
\* has, once every worker has returned, left the staging map and the
\* averager's queue and been enqueued to the Panner & Writer exactly once.
C11_EveryRecordEnqueuedOnce ==
    AllDone =>
        /\ transformed_window_and_pans_by_sample = <<>>
        /\ \A c \in (window_size - 1)..(total_samples_to_write - 1) :
              Cardinality({i \in DOMAIN enqueued : enqueued[i] = c}) = 1

\* ======================================================================
\* Pure functions, each checked by a specification of its own that draws the
\* arguments of one call and then makes the call.

\* The pipeline before upmix is called: nothing is opened, queued or written.
PipelineNotStarted ==
    /\ stream_pos = 0
    /\ total_samples_read = 0
    /\ left_buffer = <<>>
    /\ transformed_window_and_pans_by_sample = <<>>
    /\ enqueue_and_average_state = Unlocked
    /\ next_last_sample_ctr_to_enqueue = window_size - 1
    /\ transformed_window_and_pans_queue = <<>>
    /\ pan_averages = <<>>
    /\ transformed_window_and_averaged_pans_queue = <<>>
    /\ total_samples_written = 0
    /\ sink = <<>>
    /\ enqueued = <<>>
    /\ pc = [w \in Workers |-> "read"]
    /\ rec = [w \in Workers |-> None]
    /\ pending = [w \in Workers |-> <<>>]
    /\ exhausted = [w \in Workers |-> FALSE]

\* main() has not taken a step.
ProcessNotStarted ==
    /\ main_pc = "parse"
    /\ message = None
    /\ exit_code = None
    /\ spawned = {}
    /\ joined = {}
    /\ flushed = FALSE

\* No process at all: the state of every pipeline and process variable while
\* a pure function is called on its own.
NoProcess ==
    /\ total_samples_to_write = 0
    /\ steering = [c \in 0..MaxSamples |-> Centred]
    /\ PipelineNotStarted
    /\ fault = "none"
    /\ ProcessNotStarted

\* Result<T>
Ok(value) == <<"Ok", value>>
Err(kind) == <<"Err", kind>>
IsOk(r) == r[1] = "Ok"
IsErr(r) == r[1] = "Err"

Range(seq) == {seq[i] : i \in DOMAIN seq}

\* ------------------------------------------------------------ window_sizes
\* Largest min_window_size the model calls get_ideal_window_size with.
MaxMinWindowSize == 36870

WINDOW_SIZES ==
    <<6, 12, 18, 24, 36, 48, 54, 72, 96, 108, 144, 162, 192, 216, 288, 324, 384,
      432, 486, 576, 648, 768, 864, 972, 1152, 1296, 1458, 1536, 1728, 1944, 2304,
      2592, 2916, 3072, 3456, 3888, 4374, 4608, 5184, 5832, 6144, 6912, 7776,
      8748, 9216, 10368, 11664, 12288, 13122, 13824, 15552, 17496, 18432, 20736,
      23328, 24576, 26244, 27648, 31104, 34992, 36864>>

\* for window_size in WINDOW_SIZES { if window_size >= min_window_size { return Ok } }
\* from the entry at index i on; NotFound when the table is used up.
RECURSIVE ScanWindowSizes(_, _)
ScanWindowSizes(i, min_window_size) ==
    IF i > Len(WINDOW_SIZES) THEN Err("NotFound")
    ELSE IF WINDOW_SIZES[i] >= min_window_size THEN Ok(WINDOW_SIZES[i])
    ELSE ScanWindowSizes(i + 1, min_window_size)

\* Mutant of get_ideal_window_size: the comparison is > instead of >=.
get_ideal_window_size_strict(min_window_size) ==
    ScanWindowSizes(1, min_window_size + 1)

\* Mutant of get_ideal_window_size: a request beyond the table gets the last
\* entry instead of an error.
get_ideal_window_size_clamped(min_window_size) ==
    IF min_window_size > WINDOW_SIZES[Len(WINDOW_SIZES)]
    THEN Ok(WINDOW_SIZES[Len(WINDOW_SIZES)])
    ELSE ScanWindowSizes(1, min_window_size)

get_ideal_window_size(min_window_size) ==
    ScanWindowSizes(1, min_window_size)

InitWindowSize ==
    /\ NoProcess
    /\ arguments \in {<<min_window_size>> : min_window_size \in 0..MaxMinWindowSize}
    /\ returned = None

CallGetIdealWindowSize ==
    /\ returned = None
    /\ returned' = Some(get_ideal_window_size(arguments[1]))
    /\ UNCHANGED <<arguments, process_vars, total_samples_to_write, steering, reader_vars,
                   transformed_window_and_pans_by_sample, enqueue_and_average_state,
                   averager_vars, transformed_window_and_averaged_pans_queue,
                   writer_vars, enqueued, pc, rec, pending, exhausted>>

NextWindowSize == CallGetIdealWindowSize

SpecWindowSize == InitWindowSize /\ [][NextWindowSize]_vars

\* n with every factor p divided out (n >= 1).
RECURSIVE StripFactor(_, _)
StripFactor(n, p) == IF n % p = 0 THEN StripFactor(n \div p, p) ELSE n

\* n = 2^a * 3^b for some a >= 0 and b >= 0.
Is2a3b(n) == StripFactor(StripFactor(n, 2), 3) = 1

\* n = 2^a * 3^b for some a >= 1 and b >= 1.
Is2a3bPositive(n) == n % 2 = 0 /\ n % 3 = 0 /\ Is2a3b(n)

AllOfForm == {n \in 6..36864 : Is2a3b(n)}
AllOfPositiveForm == {n \in 6..36864 : Is2a3bPositive(n)}

TableSortedAscending ==
    \A i \in 1..(Len(WINDOW_SIZES) - 1) : WINDOW_SIZES[i] < WINDOW_SIZES[i + 1]

\* C12 (as stated): for every m in [6, 36864] get_ideal_window_size(m)
\* returns a w >= m of the form 2^a * 3^b than which no integer of that form
\* that is >= m is smaller, and the table is sorted ascending and holds
\* exactly the 61 integers of that form in [6, 36864]; read with exponents
\* a >= 0 and b >= 0.
C12_SmallestOfForm ==
    /\ TableSortedAscending
    /\ Len(WINDOW_SIZES) = 61
    /\ Range(WINDOW_SIZES) = AllOfForm
    /\ (returned # None /\ arguments[1] \in 6..36864) =>
          /\ IsOk(returned[1])
          /\ returned[1][2] >= arguments[1]
          /\ Is2a3b(returned[1][2])
          /\ \A v \in AllOfForm : v >= arguments[1] => v >= returned[1][2]

\* C12 (amended): the same with both exponents at least 1: the result is the
\* smallest integer 2^a * 3^b, a >= 1 and b >= 1, that is >= m, and the table
\* is sorted ascending and holds exactly the 61 such integers of [6, 36864].
C12_SmallestOfPositiveForm ==
    /\ TableSortedAscending
    /\ Len(WINDOW_SIZES) = 61
    /\ Range(WINDOW_SIZES) = AllOfPositiveForm
    /\ (returned # None /\ arguments[1] \in 6..36864) =>
          /\ IsOk(returned[1])
          /\ returned[1][2] >= arguments[1]
          /\ Is2a3bPositive(returned[1][2])
          /\ \A v \in AllOfPositiveForm : v >= arguments[1] => v >= returned[1][2]

\* C12 witness: a request that is not itself a table entry has been rounded
\* up to the next one, past integers 2^a * 3^b with a zero exponent.
C12_Witness ==
    /\ arguments = <<7>>
    /\ returned = Some(Ok(12))

\* C13: get_ideal_window_size fails, with NotFound, exactly when
\* min_window_size > 36864; for every min_window_size <= 36864, values below
\* 6 included, it returns a table entry >= min_window_size.
C13_NotFoundOnlyBeyondTable ==
    returned # None =>
        /\ IsErr(returned[1]) <=> arguments[1] > 36864
        /\ IsErr(returned[1]) => returned[1][2] = "NotFound"
        /\ IsOk(returned[1]) =>
              /\ returned[1][2] \in Range(WINDOW_SIZES)
              /\ returned[1][2] >= arguments[1]

\* C13 witness: the first request beyond the table has failed.
C13_Witness ==
    /\ arguments = <<36865>>
    /\ returned = Some(Err("NotFound"))

\* ======================================================================
\* The process: main() opens the files and calls upmix(), which opens the
\* Reader, starts the worker threads, runs a worker on the main thread, joins
\* the others and flushes the sink.  The environment makes at most one kind
\* of operation fail in a run.
Faults ==
    {"none", "bad_arguments", "source_unreadable", "not_stereo", "target_uncreatable",
     "upmix_setup", "read", "write", "flush"}

\* Longest source, in frames, that a run of the whole process is given: the
\* shortest one from which frames reach the sink has window_size +
\* window_midpoint + 1 frames.
MaxProcessSamples == 10

\* The status the operating system reports for std::process::exit(code).
ExitStatus(code) == code % 256

InitProcess ==
    /\ total_samples_to_write \in 0..MaxProcessSamples
    /\ steering = [c \in 0..MaxSamples |-> Centred]
    /\ PipelineNotStarted
    /\ fault \in Faults
    /\ ProcessNotStarted
    /\ NoCall

\* main prints a line and returns: the process ends with status 0.
MainReturns(line) ==
    /\ message' = Some(line)
    /\ main_pc' = "returned"
    /\ exit_code' = Some(ExitStatus(0))

\* What a step of main before upmix leaves alone.
MainOnly ==
    UNCHANGED <<fault, spawned, joined, flushed, call_vars, total_samples_to_write,
                steering, reader_vars, transformed_window_and_pans_by_sample,
                enqueue_and_average_state, averager_vars,
                transformed_window_and_averaged_pans_queue, writer_vars, enqueued,
                pc, rec, pending, exhausted>>

\* main: Options::parse()
ParseOptions ==
    /\ main_pc = "parse"
    /\ IF fault = "bad_arguments"
       THEN MainReturns("See options.md for more information about options")
       ELSE main_pc' = "open_source" /\ UNCHANGED <<message, exit_code>>
    /\ MainOnly

\* main: read_wav_from_file_path
OpenSource ==
    /\ main_pc = "open_source"
    /\ IF fault = "source_unreadable"
       THEN MainReturns("Can not open source")
       ELSE main_pc' = "check_channels" /\ UNCHANGED <<message, exit_code>>
    /\ MainOnly

\* main: the source must have exactly front_left and front_right
CheckChannels ==
    /\ main_pc = "check_channels"
    /\ IF fault = "not_stereo"
       THEN MainReturns("Upmixing can only happen from a 2-channel wav")
       ELSE main_pc' = "open_target" /\ UNCHANGED <<message, exit_code>>
    /\ MainOnly

\* main: write_wav_to_file_path
OpenTarget ==
    /\ main_pc = "open_target"
    /\ IF fault = "target_uncreatable"
       THEN MainReturns("Can not open target")
       ELSE main_pc' = "upmix" /\ UNCHANGED <<message, exit_code>>
    /\ MainOnly

\* upmix up to the start of the threads: the window size lookup and the
\* opening of the random access reader and writer return their error with ?,
\* and main prints it and returns; otherwise Reader::open pre-reads
\* window_size - 1 frames.
UpmixSetup ==
    /\ main_pc = "upmix"
    /\ IF fault = "upmix_setup"
       THEN /\ MainReturns("Error upmixing")
            /\ UNCHANGED reader_vars
       ELSE /\ main_pc' = "spawn"
            /\ stream_pos' = window_size - 1
            /\ total_samples_read' = window_size - 1
            /\ left_buffer' = Preread(window_size - 1, window_size - 1, total_samples_to_write)
            /\ UNCHANGED <<message, exit_code>>
    /\ UNCHANGED <<fault, spawned, joined, flushed, call_vars, total_samples_to_write,
                   steering, transformed_window_and_pans_by_sample,
                   enqueue_and_average_state, averager_vars,
                   transformed_window_and_averaged_pans_queue, writer_vars, enqueued,
                   pc, rec, pending, exhausted>>

\* What a step of upmix after the setup leaves alone.
UpmixOnly ==
    UNCHANGED <<fault, call_vars, total_samples_to_write, steering, reader_vars,
                transformed_window_and_pans_by_sample, enqueue_and_average_state,
                averager_vars, transformed_window_and_averaged_pans_queue,
                writer_vars, enqueued, pc, rec, pending, exhausted>>

\* upmix: for _ in 1..num_threads { thread::spawn(...) }
SpawnThread ==
    /\ main_pc = "spawn"
    /\ exit_code = None
    /\ \E w \in Workers \ ({1} \cup spawned) :
          /\ \A v \in Workers \ ({1} \cup spawned) : w <= v
          /\ spawned' = spawned \cup {w}
    /\ UNCHANGED <<main_pc, message, exit_code, joined, flushed>>
    /\ UpmixOnly

\* upmix: upmixer.run_upmix_thread() on the main thread, which is worker 1.
RunOnMainThread ==
    /\ main_pc = "spawn"
    /\ exit_code = None
    /\ spawned = Workers \ {1}
    /\ main_pc' = "run"
    /\ UNCHANGED <<message, exit_code, spawned, joined, flushed>>
    /\ UpmixOnly

\* A thread that exists and has not been stopped by the end of the process.
Runnable(w) ==
    /\ exit_code = None
    /\ \/ w = 1 /\ main_pc = "run"
       \/ w \in spawned

\* One step of run_upmix_thread_int on a thread of the process.
ThreadStep(w) ==
    /\ Runnable(w)
    /\ WorkerStep(w)

\* read_transform_and_measure_pans when the source iterator yields an error:
\* the counter is already incremented, no frame is queued, and the error
\* leaves run_upmix_thread_int through the ? operators.
ReadError(w) ==
    /\ Runnable(w)
    /\ fault = "read"
    /\ pc[w] = "read"
    /\ total_samples_read < total_samples_to_write
    /\ total_samples_read' = total_samples_read + 1
    /\ stream_pos' = stream_pos + 1
    /\ pc' = [pc EXCEPT ![w] = "failed"]
    /\ UNCHANGED <<process_vars, call_vars, total_samples_to_write, steering, left_buffer,
                   transformed_window_and_pans_by_sample, enqueue_and_average_state,
                   averager_vars, transformed_window_and_averaged_pans_queue,
                   writer_vars, enqueued, rec, pending, exhausted>>

\* write_samples_in_window when target_wav_writer.write_samples fails: the
\* frame is not counted and the error leaves run_upmix_thread_int.
WriteError(w) ==
    /\ Runnable(w)
    /\ fault = "write"
    /\ pc[w] = "write"
    /\ pending[w] # <<>>
    /\ pc' = [pc EXCEPT ![w] = "failed"]
    /\ UNCHANGED <<process_vars, call_vars, total_samples_to_write, steering, reader_vars,
                   transformed_window_and_pans_by_sample, enqueue_and_average_state,
                   averager_vars, transformed_window_and_averaged_pans_queue,
                   writer_vars, enqueued, rec, pending, exhausted>>

\* Mutant of ExitOnError: the worker goes back to its loop instead of ending
\* the process.
ExitOnErrorRetry(w) ==
    /\ Runnable(w)
    /\ pc[w] = "failed"
    /\ pc' = [pc EXCEPT ![w] = "read"]
    /\ UNCHANGED <<process_vars, call_vars, total_samples_to_write, steering, reader_vars,
                   transformed_window_and_pans_by_sample, enqueue_and_average_state,
                   averager_vars, transformed_window_and_averaged_pans_queue,
                   writer_vars, enqueued, rec, pending, exhausted>>

\* run_upmix_thread on Err: println!("Error upmixing: ...") and
\* std::process::exit(-1), which stops every thread.
ExitOnError(w) ==
    /\ Runnable(w)
    /\ pc[w] = "failed"
    /\ message' = Some("Error upmixing")
    /\ exit_code' = Some(ExitStatus(-1))
    /\ UNCHANGED <<main_pc, spawned, joined, flushed>>
    /\ UpmixOnly

\* upmix: run_upmix_thread has returned on the main thread.
MainWorkerReturns ==
    /\ main_pc = "run"
    /\ exit_code = None
    /\ pc[1] = "done"
    /\ main_pc' = "join"
    /\ UNCHANGED <<message, exit_code, spawned, joined, flushed>>
    /\ UpmixOnly

\* Mutant of JoinThread: the handle is taken without waiting for its thread.
JoinThreadWithoutWaiting ==
    /\ main_pc = "join"
    /\ exit_code = None
    /\ \E w \in spawned \ joined :
          /\ \A v \in spawned \ joined : w <= v
          /\ joined' = joined \cup {w}
    /\ UNCHANGED <<main_pc, message, exit_code, spawned, flushed>>
    /\ UpmixOnly

\* upmix: join_handle.join() for the next handle, which returns once that
\* thread has returned from run_upmix_thread.
JoinThread ==
    /\ main_pc = "join"
    /\ exit_code = None
    /\ \E w \in spawned \ joined :
          /\ \A v \in spawned \ joined : w <= v
          /\ pc[w] = "done"
          /\ joined' = joined \cup {w}
    /\ UNCHANGED <<main_pc, message, exit_code, spawned, flushed>>
    /\ UpmixOnly

\* upmix after the join loop: target_wav_writer.flush() and the return to
\* main, which prints the outcome and returns.
FlushAndReturn ==
    /\ main_pc = "join"
    /\ exit_code = None
    /\ joined = spawned
    /\ IF fault = "flush"
       THEN /\ MainReturns("Error upmixing")
            /\ UNCHANGED flushed
       ELSE /\ MainReturns("Upmixing completed successfully")
            /\ flushed' = TRUE
    /\ UNCHANGED <<spawned, joined>>
    /\ UpmixOnly

NextProcess ==
    \/ ParseOptions
    \/ OpenSource
    \/ CheckChannels
    \/ OpenTarget
    \/ UpmixSetup
    \/ SpawnThread
    \/ RunOnMainThread
    \/ \E w \in Workers : ThreadStep(w)
    \/ \E w \in Workers : ReadError(w)
    \/ \E w \in Workers : WriteError(w)
    \/ \E w \in Workers : ExitOnError(w)
    \/ MainWorkerReturns
    \/ JoinThread
    \/ FlushAndReturn

SpecProcess == InitProcess /\ [][NextProcess]_vars

\* Some worker's read or write has returned an I/O error.
SomeWorkerFailed == \E w \in Workers : pc[w] = "failed"

\* C14: a source with fewer frames than the window size is rejected before
\* any pipeline work: the Reader is never opened on it (no zero frame pads a
\* buffer), no thread is started, no frame is written, and the process does
\* not end with status 0 or report success.
C14_ShortSourceRejected ==
    (total_samples_to_write < window_size /\ fault = "none") =>
        /\ main_pc \in {"parse", "open_source", "check_channels", "open_target",
                        "upmix", "returned"}
        /\ ZeroSample \notin Range(left_buffer)
        /\ sink = <<>>
        /\ exit_code # Some(0)
        /\ message # Some("Upmixing completed successfully")

\* C15: the process ends with status 0 only on success, that is only after
\* upmix has returned Ok and main has printed that upmixing completed.
C15_ExitZeroOnlyOnSuccess ==
    exit_code = Some(0) =>
        /\ message = Some("Upmixing completed successfully")
        /\ flushed

\* C16: an I/O error of a read or a write inside a worker is never retried:
\* the failed worker takes no step but the one that prints the error and
\* ends the whole process with a non-zero status, the process cannot end
\* any other way once a worker has failed, no thread moves after the exit,
\* and the frames already in the sink stay as they are.
C16_WorkerErrorEndsProcess ==
    /\ [][\A w \in Workers :
            pc[w] = "failed" =>
                /\ pc'[w] = "failed"
                /\ rec'[w] = rec[w] /\ pending'[w] = pending[w]]_vars
    /\ [][(SomeWorkerFailed /\ exit_code' # exit_code) =>
            /\ exit_code' = Some(255)
            /\ message' = Some("Error upmixing")]_vars
    /\ [](\A w \in Workers :
            (pc[w] = "failed" /\ exit_code = None) => ENABLED ExitOnError(w))
    /\ [](exit_code # None => ~ENABLED NextProcess)
    /\ [][SomeWorkerFailed =>
            \A n \in DOMAIN sink : n \in DOMAIN sink' /\ sink'[n] = sink[n]]_vars

\* C16 witness: a write failed after frames had reached the sink, the failed
\* worker has ended the process, and another worker was stopped in mid-flight.
C16_Witness ==
    /\ fault = "write"
    /\ sink # <<>>
    /\ exit_code = Some(255)
    /\ \E w \in Workers : pc[w] = "failed"
    /\ \E w \in Workers : pc[w] \notin {"failed", "done"}

\* C17: upmix flushes the sink and returns only after every thread it
\* spawned has returned from run_upmix_thread.
C17_TeardownAfterWorkers ==
    /\ flushed => \A w \in spawned : pc[w] = "done"
    /\ main_pc = "returned" => \A w \in spawned : pc[w] = "done"
    /\ main_pc = "returned" => joined = spawned

\* C17 witness: the sink was flushed after a spawned thread that wrote frames
\* had been joined.
C17_Witness ==
    /\ flushed
    /\ spawned # {}
    /\ joined = spawned
    /\ sink # <<>>

\* ======================================================================
\* matrix.rs: DefaultMatrix::steer.  A phase is a whole number of steps of
\* PI / PhaseSteps; amplitudes are whole numbers; left_to_right and
\* back_to_front are exact fixed-point numbers in which 1.0 is SteerOne.

\* Steps in half a turn: PI is PhaseSteps and TAU is 2 * PhaseSteps.
PhaseSteps == 4
\* Largest amplitude of one channel.
MaxAmplitude == 2

PI == PhaseSteps
TAU == 2 * PhaseSteps

\* The DefaultMatrix variants with widen_factor as the fraction
\* widen_num / widen_den.  For qs it is 1 / largest_pan with largest_pan =
\* (0.924 / (0.924 + 0.383)) * 2 - 1, written in thousandths.
DefaultMatrixVariants ==
    { [name |-> "new", widen_num |-> 1, widen_den |-> 1],
      [name |-> "qs", widen_num |-> 924 + 383, widen_den |-> 2 * 924 - (924 + 383)],
      [name |-> "horseshoe", widen_num |-> 2, widen_den |-> 1],
      [name |-> "dolby_stereo", widen_num |-> 1, widen_den |-> 1] }

RECURSIVE Factorial(_)
Factorial(n) == IF n = 0 THEN 1 ELSE n * Factorial(n - 1)

\* 1.0: a multiple of PhaseSteps, of every amplitude_sum and of the
\* denominator of every widen_factor, so that each division below is exact.
SteerOne == PhaseSteps * Factorial(2 * MaxAmplitude) * (2 * 924 - (924 + 383))

Abs(x) == IF x < 0 THEN -x ELSE x
Min(x, y) == IF x < y THEN x ELSE y
Max(x, y) == IF x > y THEN x ELSE y

\* phase_difference_tau, phase_difference_pi and back_to_front_from_phase
back_to_front_from_phase(left_phase, right_phase) ==
    LET phase_difference_tau == Abs(left_phase - right_phase)
        phase_difference_pi ==
            IF phase_difference_tau > PI
            THEN PI - (TAU - phase_difference_tau)
            ELSE phase_difference_tau
    IN (phase_difference_pi * SteerOne) \div PI

\* Mutant of steer: the final clamp of left_to_right is missing.
steer_unclamped(matrix, left_amplitude, left_phase, right_amplitude, right_phase) ==
    LET amplitude_sum == left_amplitude + right_amplitude
        widened == ((SteerOne - (2 * left_amplitude * SteerOne) \div amplitude_sum)
                        * matrix.widen_num) \div matrix.widen_den
        back_to_front_from_panning == Max(Abs(widened) - SteerOne, 0)
    IN IF amplitude_sum = 0
       THEN [left_to_right |-> 0, back_to_front |-> 0]
       ELSE [left_to_right |-> widened,
             back_to_front |->
                 Min(back_to_front_from_panning
                        + back_to_front_from_phase(left_phase, right_phase), SteerOne)]

\* Mutant of steer: left_to_right is (left_amplitude / amplitude_sum) * 2.0 -
\* 1.0, which is positive towards the left.
steer_left_positive(matrix, left_amplitude, left_phase, right_amplitude, right_phase) ==
    LET amplitude_sum == left_amplitude + right_amplitude
        widened == (((2 * left_amplitude * SteerOne) \div amplitude_sum - SteerOne)
                        * matrix.widen_num) \div matrix.widen_den
        back_to_front_from_panning == Max(Abs(widened) - SteerOne, 0)
    IN IF amplitude_sum = 0
       THEN [left_to_right |-> 0, back_to_front |-> 0]
       ELSE [left_to_right |-> Max(Min(widened, SteerOne), -SteerOne),
             back_to_front |->
                 Min(back_to_front_from_panning
                        + back_to_front_from_phase(left_phase, right_phase), SteerOne)]

\* DefaultMatrix::steer; the returned amplitude is left out.
steer(matrix, left_amplitude, left_phase, right_amplitude, right_phase) ==
    LET amplitude_sum == left_amplitude + right_amplitude
        \* (left_amplitude / amplitude_sum) * -2.0 + 1.0, then *= widen_factor
        widened == ((SteerOne - (2 * left_amplitude * SteerOne) \div amplitude_sum)
                        * matrix.widen_num) \div matrix.widen_den
        back_to_front_from_panning == Max(Abs(widened) - SteerOne, 0)
    IN IF amplitude_sum = 0
       THEN [left_to_right |-> 0, back_to_front |-> 0]
       ELSE [left_to_right |-> Max(Min(widened, SteerOne), -SteerOne),
             back_to_front |->
                 Min(back_to_front_from_panning
                        + back_to_front_from_phase(left_phase, right_phase), SteerOne)]

\* Reader::read_transform_and_measure_pans calls steer with the polar form of
\* a left and a right bin: amplitudes >= 0, phases in [-PI, PI].
InitSteer ==
    /\ NoProcess
    /\ arguments \in DefaultMatrixVariants \X (0..MaxAmplitude) \X ((-PI)..PI)
                        \X (0..MaxAmplitude) \X ((-PI)..PI)
    /\ returned = None

CallSteer ==
    /\ returned = None
    /\ returned' = Some(steer(arguments[1], arguments[2], arguments[3],
                              arguments[4], arguments[5]))
    /\ UNCHANGED <<arguments, process_vars, total_samples_to_write, steering, reader_vars,
                   transformed_window_and_pans_by_sample, enqueue_and_average_state,
                   averager_vars, transformed_window_and_averaged_pans_queue,
                   writer_vars, enqueued, pc, rec, pending, exhausted>>

NextSteer == CallSteer

SpecSteer == InitSteer /\ [][NextSteer]_vars

\* The minimum angular distance between two phases, in steps: the shorter
\* way round the circle.
MinimumAngularDistance(left_phase, right_phase) ==
    LET d == (left_phase - right_phase) % TAU
    IN Min(d, TAU - d)

\* C19: for every pair of phases in (-PI, PI], steer's
\* back_to_front_from_phase is the minimum angular distance between the two
\* phases divided by PI: 0 for phases equal modulo TAU, 1 for phases PI apart,
\* also when the raw absolute difference exceeds PI.
C19_PhaseRatioIsMinimumAngularDistance ==
    (returned # None /\ arguments[3] > -PI /\ arguments[5] > -PI) =>
        back_to_front_from_phase(arguments[3], arguments[5]) * PI
            = MinimumAngularDistance(arguments[3], arguments[5]) * SteerOne

\* C20: for non-negative amplitudes, phases in [-PI, PI] and every
\* DefaultMatrix variant, steer returns left_to_right in [-1, 1] and
\* back_to_front in [0, 1], and (0, 0) when both amplitudes are zero.
C20_PansInRange ==
    returned # None =>
        /\ returned[1].left_to_right \in (-SteerOne)..SteerOne
        /\ returned[1].back_to_front \in 0..SteerOne
        /\ (arguments[2] = 0 /\ arguments[4] = 0) =>
              returned[1] = [left_to_right |-> 0, back_to_front |-> 0]

\* C20 witness: a bin in the left channel only, steered by the horseshoe
\* matrix with phases half a turn apart: both values were clamped.
C20_Witness ==
    /\ returned # None
    /\ arguments[1].name = "horseshoe"
    /\ arguments[2] > 0 /\ arguments[4] = 0
    /\ arguments[3] = PI /\ arguments[5] = 0
    /\ returned[1] = [left_to_right |-> -SteerOne, back_to_front |-> SteerOne]

\* ======================================================================
\* panner_and_writer.rs: the steering loop and the LFE filter loop of
\* perform_backwards_transform_and_write_samples.  A bin is a pair <<re, im>>
\* lying on an axis, a phase is a whole number of quarter turns (HALF_PI), and
\* pans are fixed-point numbers in which 1.0 is One.

HALF_PI == 1
\* DefaultMatrix: left_rear_shift = -0.5 * PI, right_rear_shift = 0.5 * PI
left_rear_shift == -HALF_PI
right_rear_shift == HALF_PI

\* Amplitude of a non-zero input bin: products with two pans stay whole.
BinAmplitude == 2 * One * One

\* Complex::to_polar of a bin on an axis: <<norm, atan2(im, re)>>
to_polar(c) ==
    <<Abs(c[1]) + Abs(c[2]),
      IF c[2] > 0 THEN HALF_PI
      ELSE IF c[2] < 0 THEN -HALF_PI
      ELSE IF c[1] < 0 THEN 2 * HALF_PI
      ELSE 0>>

\* Complex::from_polar: <<amplitude * cos(phase), amplitude * sin(phase)>>
from_polar(amplitude, phase) ==
    LET quarter == (phase \div HALF_PI) % 4
    IN IF quarter = 0 THEN <<amplitude, 0>>
       ELSE IF quarter = 1 THEN <<0, amplitude>>
       ELSE IF quarter = 2 THEN <<-amplitude, 0>>
       ELSE <<0, -amplitude>>

\* Mutant of bring_phase_in_range: the phase is left as it is.
bring_phase_in_range_unwrapped(phase) == phase

bring_phase_in_range(phase) ==
    IF phase > 2 * HALF_PI THEN phase - 4 * HALF_PI
    ELSE IF phase < -2 * HALF_PI THEN phase + 4 * HALF_PI
    ELSE phase

shift_in_place(phase, shift) == bring_phase_in_range(phase + shift)

\* Mutant of Mirror: the imaginary part is copied without the change of sign.
MirrorSameSign(c) == <<c[1], c[2]>>

\* Complex { re: c.re, im: -1.0 * c.im }
Mirror(c) == <<c[1], -1 * c[2]>>

\* Bin k of a spectrum (bins are numbered from 0).
Bin(spectrum, k) == spectrum[k + 1]

\* spectrum[freq_ctr] = c, and below the midpoint also
\* spectrum[window_size - freq_ctr] = the mirrored bin.
AssignToArray(spectrum, freq_ctr, c) ==
    IF freq_ctr < window_midpoint
    THEN [spectrum EXCEPT ![freq_ctr + 1] = c,
                          ![window_size - freq_ctr + 1] = Mirror(c)]
    ELSE [spectrum EXCEPT ![freq_ctr + 1] = c]

\* One iteration of the steering loop on the arrays in out.
SteerFrequency(out, freq_ctr, frequency_pans) ==
    LET left == to_polar(Bin(out.left_front, freq_ctr))
        right == to_polar(Bin(out.right_front, freq_ctr))
        left_to_right == frequency_pans[freq_ctr].left_to_right
        back_to_front == frequency_pans[freq_ctr].back_to_front
        front_to_back == One - back_to_front
        left_front_amplitude == (left[1] * front_to_back) \div One
        right_front_amplitude == (right[1] * front_to_back) \div One
        left_rear_amplitude == (left[1] * back_to_front) \div One
        right_rear_amplitude == (right[1] * back_to_front) \div One
        center_amplitude ==
            ((One - Abs(left_to_right)) * (left_front_amplitude + right_front_amplitude))
                \div One
        has_center == out.center # None
        c == from_polar(center_amplitude, to_polar(Bin(out.center[1], freq_ctr))[2])
        left_front_left == IF has_center THEN Max(0, left_front_amplitude - center_amplitude)
                           ELSE left_front_amplitude
        right_front_left == IF has_center THEN Max(0, right_front_amplitude - center_amplitude)
                            ELSE right_front_amplitude
    IN [left_front |-> AssignToArray(out.left_front, freq_ctr,
                            from_polar(left_front_left, left[2])),
        right_front |-> AssignToArray(out.right_front, freq_ctr,
                            from_polar(right_front_left, right[2])),
        left_rear |-> AssignToArray(out.left_rear, freq_ctr,
                            from_polar(left_rear_amplitude,
                                       shift_in_place(left[2], left_rear_shift))),
        right_rear |-> AssignToArray(out.right_rear, freq_ctr,
                            from_polar(right_rear_amplitude,
                                       shift_in_place(right[2], right_rear_shift))),
        center |-> IF has_center THEN Some(AssignToArray(out.center[1], freq_ctr, c))
                   ELSE None,
        lfe |-> out.lfe]

\* for freq_ctr in 1..(window_midpoint + 1), up to and including freq_ctr
RECURSIVE SteerEachFrequency(_, _, _)
SteerEachFrequency(out, freq_ctr, frequency_pans) ==
    IF freq_ctr = 0 THEN out
    ELSE SteerFrequency(SteerEachFrequency(out, freq_ctr - 1, frequency_pans),
                        freq_ctr, frequency_pans)

\* PannerAndWriter::new: lfe_levels[0] = 1.0 and lfe_levels[window_midpoint] =
\* 0.0; the loop 1..(window_midpoint - 2) that sets the levels of the low bins
\* is empty for this window size, so every other level keeps its 0.0.
lfe_levels == [k \in 0..(window_size - 1) |-> IF k = 0 THEN One ELSE 0]

\* One iteration of the LFE filter loop.
FilterLfeBin(lfe, window_ctr) ==
    LET polar == to_polar(Bin(lfe, window_ctr))
        c == from_polar((polar[1] * lfe_levels[window_ctr]) \div One, polar[2])
    IN [lfe EXCEPT ![window_ctr + 1] = c,
                   ![window_size - window_ctr + 1] = Mirror(c)]

\* for window_ctr in 1..window_midpoint, up to and including window_ctr
RECURSIVE FilterLfe(_, _)
FilterLfe(lfe, window_ctr) ==
    IF window_ctr = 0 THEN lfe
    ELSE FilterLfeBin(FilterLfe(lfe, window_ctr - 1), window_ctr)

\* Options::parse: the channels and transform_mono of each channel layout.
ChannelLayouts ==
    { [name |-> "Four", transform_mono |-> FALSE, front_center |-> FALSE,
       low_frequency |-> FALSE],
      [name |-> "Five", transform_mono |-> TRUE, front_center |-> TRUE,
       low_frequency |-> FALSE],
      [name |-> "FiveOne", transform_mono |-> TRUE, front_center |-> TRUE,
       low_frequency |-> TRUE] }

\* The six spectra of perform_backwards_transform_and_write_samples after the
\* steering loop and the LFE filter loop, before the inverse transforms.
SteerAndFilter(layout, left_transformed, right_transformed, mono_transformed, frequency_pans) ==
    LET start == [left_front |-> left_transformed,
                  right_front |-> right_transformed,
                  left_rear |-> [left_transformed EXCEPT ![1] = <<0, 0>>],
                  right_rear |-> [right_transformed EXCEPT ![1] = <<0, 0>>],
                  lfe |-> IF layout.low_frequency THEN mono_transformed ELSE None,
                  center |-> IF layout.front_center THEN mono_transformed ELSE None]
        steered == SteerEachFrequency(start, window_midpoint, frequency_pans)
    IN [steered EXCEPT !.lfe = IF steered.lfe = None THEN None
                               ELSE Some(FilterLfe(steered.lfe[1], window_midpoint - 1))]

\* The bins an input can have: zero, or BinAmplitude along one of the axes.
AxisBins ==
    {<<0, 0>>, <<BinAmplitude, 0>>, <<-BinAmplitude, 0>>,
     <<0, BinAmplitude>>, <<0, -BinAmplitude>>}

\* Pairs of a left and a right bin whose sum lies on an axis too.
BinPairs ==
    {p \in AxisBins \X AxisBins : p[1][1] * p[2][2] = p[1][2] * p[2][1]}

\* The forward transform of a real window: bin 0 and bin window_midpoint are
\* real and the upper bins mirror the lower ones.
RECURSIVE MirroredBins(_, _)
MirroredBins(low, k) ==
    IF k = 0 THEN <<>>
    ELSE <<<<low[k + 1][1], -low[k + 1][2]>>>> \o MirroredBins(low, k - 1)

RealTransform(low) == low \o MirroredBins(low, window_midpoint - 1)

\* Reader: mono = (left + right) / 2, transformed, when transform_mono is set.
MonoTransformed(layout, left_transformed, right_transformed) ==
    IF layout.transform_mono
    THEN Some([i \in 1..window_size |->
                <<(left_transformed[i][1] + right_transformed[i][1]) \div 2,
                  (left_transformed[i][2] + right_transformed[i][2]) \div 2>>])
    ELSE None

\* The averaged pans of a record: every bin centred, every bin rear left, or
\* every bin half way to the right and half way to the rear.
AveragedPans ==
    {Centred, RearLeft,
     [k \in 1..window_midpoint |-> FrequencyPans(One \div 2, One \div 2)]}

InitPanner ==
    /\ NoProcess
    /\ \E layout \in ChannelLayouts, first \in BinPairs, second \in BinPairs,
          last \in {<<0, 0>>, <<-BinAmplitude, 0>>}, frequency_pans \in AveragedPans :
          LET left == RealTransform(<<<<BinAmplitude, 0>>, first[1], second[1], last>>)
              right == RealTransform(<<<<BinAmplitude, 0>>, first[2], second[2], last>>)
          IN arguments = <<layout, left, right, MonoTransformed(layout, left, right),
                           frequency_pans>>
    /\ returned = None

CallSteerAndFilter ==
    /\ returned = None
    /\ returned' = Some(SteerAndFilter(arguments[1], arguments[2], arguments[3],
                                       arguments[4], arguments[5]))
    /\ UNCHANGED <<arguments, process_vars, total_samples_to_write, steering, reader_vars,
                   transformed_window_and_pans_by_sample, enqueue_and_average_state,
                   averager_vars, transformed_window_and_averaged_pans_queue,
                   writer_vars, enqueued, pc, rec, pending, exhausted>>

NextPanner == CallSteerAndFilter

SpecPanner == InitPanner /\ [][NextPanner]_vars

\* The complex conjugate.
Conj(c) == <<c[1], -c[2]>>

\* Bin W - k of the spectrum is the conjugate of bin k, for every k in [1, W/2).
Hermitian(spectrum) ==
    \A k \in 1..(window_midpoint - 1) :
        Bin(spectrum, window_size - k) = Conj(Bin(spectrum, k))

\* C18: after the steering loop and the LFE filter loop, in each of the
\* output spectra (front left and right, rear left and right, centre and LFE
\* where the layout has them) bin W - k is the complex conjugate of bin k for
\* every k in [1, W/2).
C18_OutputSpectraHermitian ==
    returned # None =>
        /\ Hermitian(returned[1].left_front)
        /\ Hermitian(returned[1].right_front)
        /\ Hermitian(returned[1].left_rear)
        /\ Hermitian(returned[1].right_rear)
        /\ returned[1].center # None => Hermitian(returned[1].center[1])
        /\ returned[1].lfe # None => Hermitian(returned[1].lfe[1])

\* C18 witness: a 5.1 record steered half way to the rear whose rear-left
\* bin 1 has a non-zero imaginary part, mirrored with the opposite sign.
C18_Witness ==
    /\ returned # None
    /\ arguments[1].name = "FiveOne"
    /\ returned[1].center # None /\ returned[1].lfe # None
    /\ Bin(returned[1].left_rear, 1)[2] > 0
    /\ Bin(returned[1].left_rear, window_size - 1)[2] < 0
    /\ Bin(returned[1].center[1], 1) # <<0, 0>>

\* ======================================================================
\* Further claims about DefaultMatrix::steer, under SpecSteer.

\* C21: for a bin in the left channel only (left amplitude > 0, right
\* amplitude 0) steer returns left_to_right = -1, for a bin in the right
\* channel only +1, and with widen factor 1 the returned back_to_front is the
\* phase-difference contribution back_to_front_from_phase alone.
C21_SingleChannelSteersToItsSide ==
    returned # None =>
        /\ (arguments[2] > 0 /\ arguments[4] = 0) =>
              returned[1].left_to_right = -SteerOne
        /\ (arguments[2] = 0 /\ arguments[4] > 0) =>
              returned[1].left_to_right = SteerOne
        /\ (arguments[2] + arguments[4] > 0 /\ (arguments[2] = 0 \/ arguments[4] = 0)
                /\ arguments[1].widen_num = arguments[1].widen_den) =>
              returned[1].back_to_front
                  = back_to_front_from_phase(arguments[3], arguments[5])

\* C21 witness: a left-only bin steered by the default matrix, the phases
\* one step apart: hard left and one step's worth to the rear.
C21_Witness ==
    /\ returned # None
    /\ arguments[1].name = "new"
    /\ arguments[2] > 0 /\ arguments[4] = 0
    /\ Abs(arguments[3] - arguments[5]) = 1
    /\ returned[1] = [left_to_right |-> -SteerOne, back_to_front |-> SteerOne \div PI]

\* ======================================================================
\* matrix.rs: DefaultMatrix::phase_shift, with phases in quarter turns.

\* The four phases after the call: the front phases are not touched.
phase_shift(left_front_phase, right_front_phase, left_rear_phase, right_rear_phase) ==
    <<left_front_phase, right_front_phase,
      shift_in_place(left_rear_phase, left_rear_shift),
      shift_in_place(right_rear_phase, right_rear_shift)>>

\* The panner calls phase_shift with phases that to_polar returned: [-PI, PI].
PolarPhases == (-2 * HALF_PI)..(2 * HALF_PI)

InitPhaseShift ==
    /\ NoProcess
    /\ arguments \in PolarPhases \X PolarPhases \X PolarPhases \X PolarPhases
    /\ returned = None

CallPhaseShift ==
    /\ returned = None
    /\ returned' = Some(phase_shift(arguments[1], arguments[2], arguments[3], arguments[4]))
    /\ UNCHANGED <<arguments, process_vars, total_samples_to_write, steering, reader_vars,
                   transformed_window_and_pans_by_sample, enqueue_and_average_state,
                   averager_vars, transformed_window_and_averaged_pans_queue,
                   writer_vars, enqueued, pc, rec, pending, exhausted>>

NextPhaseShift == CallPhaseShift

SpecPhaseShift == InitPhaseShift /\ [][NextPhaseShift]_vars

\* C22 (as stated): for rear phases in (-PI, PI], both rear phases that
\* phase_shift leaves are in the half-open interval (-PI, PI]: -PI is not a
\* possible result.
C22_ShiftedPhasesHalfOpen ==
    (returned # None /\ arguments[3] > -2 * HALF_PI /\ arguments[4] > -2 * HALF_PI) =>
        /\ returned[1][3] > -2 * HALF_PI /\ returned[1][3] <= 2 * HALF_PI
        /\ returned[1][4] > -2 * HALF_PI /\ returned[1][4] <= 2 * HALF_PI

\* C22 (amended): for rear phases in (-PI, PI], both rear phases that
\* phase_shift leaves are in the closed interval [-PI, PI] and equal the old
\* phase plus the shift modulo TAU; the left one is exactly -PI when the old
\* phase is -PI/2, and only then.
C22_ShiftedPhasesClosed ==
    (returned # None /\ arguments[3] > -2 * HALF_PI /\ arguments[4] > -2 * HALF_PI) =>
        /\ returned[1][3] \in PolarPhases
        /\ returned[1][4] \in PolarPhases
        /\ (returned[1][3] - (arguments[3] + left_rear_shift)) % (4 * HALF_PI) = 0
        /\ (returned[1][4] - (arguments[4] + right_rear_shift)) % (4 * HALF_PI) = 0
        /\ returned[1][3] = -2 * HALF_PI <=> arguments[3] = -HALF_PI
        /\ returned[1][4] # -2 * HALF_PI

\* C22 witness: a left rear phase of -PI/2 has been shifted to exactly -PI,
\* and a right rear phase of PI has wrapped round to -PI/2.
C22_Witness ==
    /\ returned # None
    /\ arguments[3] = -HALF_PI /\ returned[1][3] = -2 * HALF_PI
    /\ arguments[4] = 2 * HALF_PI /\ returned[1][4] = -HALF_PI

\* ======================================================================
\* Further claims about the pipeline, under Spec.

\* The frames of the record with counter c that a file holds, each as
\* <<absolute index, position in the transform>>.
FramesOf(file, c) ==
    {<<n, file[n].sample_in_transform>> :
        n \in {m \in DOMAIN file : file[m].last_sample_ctr = c}}

\* The frames C23 gives a record with counter c: the lower half of the
\* transform at 0..W/2-1, else the upper half at T-W/2..T-1, else the midpoint
\* at c - W/2.
FramesOfRecord(c, total) ==
    IF c - window_midpoint = window_midpoint
    THEN {<<n, n>> : n \in 0..(window_midpoint - 1)}
    ELSE IF c = total - 1
    THEN {<<total - window_midpoint + i, window_midpoint + i>> :
            i \in 0..(window_midpoint - 1)}
    ELSE {<<c - window_midpoint, window_midpoint>>}

\* C23: a record popped by the panner is given exactly the write calls of its
\* case (first emitting record: W/2 frames at 0..W/2-1 from positions
\* 0..W/2-1; else last record: W/2 frames at T-W/2..T-1 from positions
\* W/2..W-1; else one frame at last_sample_ctr - W/2 from position W/2), and
\* when the panner is done with the record the sink holds exactly those frames
\* of it.
C23_FramesWrittenPerRecord ==
    /\ [][\A w \in Workers :
            (pc[w] = "pop" /\ pc'[w] = "write") =>
                /\ {<<pending'[w][i].sample_ctr, pending'[w][i].sample_in_transform>> :
                        i \in DOMAIN pending'[w]}
                     = FramesOfRecord(rec'[w][1].last_sample_ctr, total_samples_to_write)
                /\ Len(pending'[w])
                     = Cardinality(FramesOfRecord(rec'[w][1].last_sample_ctr,
                                                  total_samples_to_write))]_vars
    /\ [][\A w \in Workers :
            (pc[w] = "write" /\ pc'[w] = "pop") =>
                FramesOf(sink, rec[w][1].last_sample_ctr)
                    = FramesOfRecord(rec[w][1].last_sample_ctr, total_samples_to_write)]_vars

\* C23 witness: the panner has written the upper half of the last record,
\* after the lower half of the first emitting record and a middle frame.
C23_Witness ==
    /\ \E w \in Workers :
          /\ pc[w] = "write" /\ pending[w] = <<>>
          /\ rec[w][1].last_sample_ctr = total_samples_to_write - 1
          /\ Cardinality(FramesOf(sink, total_samples_to_write - 1)) = window_midpoint
    /\ Cardinality(FramesOf(sink, window_size)) = window_midpoint
    /\ FramesOf(sink, window_size + 1) = {<<window_midpoint + 1, window_midpoint>>}

\* C24: every frame written at absolute index n is read from the transform
\* position that holds input sample n: the record with counter c is built
\* from samples c-W+1..c, position p holds sample c-W+1+p, and the position
\* used for index n satisfies c-W+1+p = n in all three cases.
C24_FrameHoldsItsOwnSample ==
    \A n \in DOMAIN sink :
        /\ sink[n].sample = sink[n].last_sample_ctr - window_size + 1
                                + sink[n].sample_in_transform
        /\ sink[n].sample = n

\* C25: the pre-seed step initialises pan_averages[k] as the sum of
\* fraction[k] times the steering vector over the queue positions lower[k]
\* through upper[k] - 1 inclusive (L_k - 1 positions), so that after the
\* first "add position upper[k]" step the average covers lower[k]..upper[k].
C25_PreSeedCoversAllButUpper ==
    [][(pan_averages = <<>> /\ pan_averages' # <<>>) =>
          pan_averages' =
              [k \in 1..window_midpoint |->
                  FrequencyPans(
                      SumPans(transformed_window_and_pans_queue', k,
                              average_last_sample_ctr_lower_bounds(k),
                              average_last_sample_ctr_upper_bounds(k),
                              "left_to_right"),
                      SumPans(transformed_window_and_pans_queue', k,
                              average_last_sample_ctr_lower_bounds(k),
                              average_last_sample_ctr_upper_bounds(k),
                              "back_to_front"))]]_vars

\* fraction[k] times the steering vector of bin k at a 0-based queue position.
FractionOfPans(queue, position, k) ==
    FrequencyPans(
        TimesFraction(queue[position + 1].frequency_pans[k].left_to_right, k),
        TimesFraction(queue[position + 1].frequency_pans[k].back_to_front, k))

\* C26: in each iteration of the emission loop and for every bin k,
\* fraction[k] times the steering vector at queue position upper[k] is added
\* to pan_averages[k] before the record at position W/2 is emitted, and
\* fraction[k] times the steering vector at position lower[k] is subtracted
\* afterwards, before the front of the queue is popped; both left_to_right
\* and back_to_front are updated.
C26_RollingUpdateOfBothComponents ==
    [][enqueued' # enqueued =>
          LET emitted == transformed_window_and_averaged_pans_queue'[
                             Len(transformed_window_and_averaged_pans_queue')]
              queue == transformed_window_and_pans_queue
          IN \A k \in 1..window_midpoint :
                LET added == FractionOfPans(queue, average_last_sample_ctr_upper_bounds(k), k)
                    removed == FractionOfPans(queue, average_last_sample_ctr_lower_bounds(k), k)
                IN /\ emitted.frequency_pans[k] =
                          FrequencyPans(pan_averages[k].left_to_right + added.left_to_right,
                                        pan_averages[k].back_to_front + added.back_to_front)
                   /\ transformed_window_and_pans_queue' # <<>> =>
                          pan_averages'[k] =
                              FrequencyPans(
                                  emitted.frequency_pans[k].left_to_right - removed.left_to_right,
                                  emitted.frequency_pans[k].back_to_front - removed.back_to_front)]_vars

\* C27: enqueue_and_average moves nothing to the panner until the record
\* with last_sample_ctr = W + W/2 has been enqueued; at that moment
\* pan_averages is initialised, once, with W/2 entries and is never
\* initialised again; a source whose last counter T-1 is below W + W/2
\* produces no emission at all.
C27_NothingEmittedBeforePreSeed ==
    /\ [](enqueued # <<>> => next_last_sample_ctr_to_enqueue > window_size + window_midpoint)
    /\ [](IF next_last_sample_ctr_to_enqueue > window_size + window_midpoint
          THEN Len(pan_averages) = window_midpoint
          ELSE pan_averages = <<>>)
    /\ [][pan_averages # <<>> => Len(pan_averages') = Len(pan_averages)]_vars
    /\ [](total_samples_to_write - 1 < window_size + window_midpoint => enqueued = <<>>)

\* C27 witness: the drain that enqueued the record W + W/2 has just seeded
\* the averages, and nothing has been moved to the panner yet.
C27_Witness ==
    /\ Len(pan_averages) = window_midpoint
    /\ enqueued = <<>>
    /\ next_last_sample_ctr_to_enqueue = window_size + window_midpoint + 1
    /\ \E w \in Workers : pc[w] = "emit"

\* A queue entry without transforms that carries the given steering vectors.
IsPlaceholderOf(entry, pans) ==
    /\ entry.left_transformed = None
    /\ entry.frequency_pans = pans

\* A queue entry that holds the transforms of the record with counter c.
IsRecord(entry, c) ==
    /\ entry.left_transformed # None
    /\ entry.last_sample_ctr = c

\* C28: when the first record (last_sample_ctr = W-1) is enqueued, exactly
\* W/2-1 placeholders with null transforms, last_sample_ctr 0 and a copy of
\* its steering vectors are placed ahead of it; when the record T-1 is
\* enqueued, exactly W/2 placeholders with null transforms and a copy of its
\* steering vectors are placed after it, and next_last_sample_ctr_to_enqueue
\* still advances by exactly one.
C28_PlaceholdersAroundFirstAndLast ==
    /\ [][(next_last_sample_ctr_to_enqueue = window_size - 1
              /\ next_last_sample_ctr_to_enqueue' > window_size - 1) =>
            LET queue == transformed_window_and_pans_queue'
            IN /\ transformed_window_and_pans_queue = <<>>
               /\ Len(queue) >= window_midpoint
               /\ \A i \in 1..(window_midpoint - 1) :
                     /\ IsPlaceholderOf(queue[i], steering[window_size - 1])
                     /\ queue[i].last_sample_ctr = 0
               /\ IsRecord(queue[window_midpoint], window_size - 1)]_vars
    /\ [][(next_last_sample_ctr_to_enqueue <= total_samples_to_write - 1
              /\ next_last_sample_ctr_to_enqueue' > total_samples_to_write - 1) =>
            LET queue == transformed_window_and_pans_queue'
                n == Len(queue)
            IN /\ next_last_sample_ctr_to_enqueue' = total_samples_to_write
               /\ n > window_midpoint
               /\ IsRecord(queue[n - window_midpoint], total_samples_to_write - 1)
               /\ \A i \in (n - window_midpoint + 1)..n :
                     IsPlaceholderOf(queue[i], steering[total_samples_to_write - 1])]_vars

\* C28 witness: one drain has enqueued every record of a source long enough
\* to be averaged, so that the queue holds the leading placeholders, the
\* records W-1..T-1 and the trailing placeholders.
C28_Witness ==
    /\ total_samples_to_write > window_size + window_midpoint
    /\ next_last_sample_ctr_to_enqueue = total_samples_to_write
    /\ Len(transformed_window_and_pans_queue) =
           (window_midpoint - 1) + (total_samples_to_write - window_size + 1) + window_midpoint
    /\ transformed_window_and_pans_queue[1].left_transformed = None
    /\ IsRecord(transformed_window_and_pans_queue[window_midpoint], window_size - 1)
    /\ transformed_window_and_pans_queue[Len(transformed_window_and_pans_queue)]
           .left_transformed = None

\* C29: every record moved to the panner carries its transforms: neither a
\* leading nor a trailing placeholder is at queue position W/2 when an
\* emission happens, so the panner's "Transform expected, got a placeholder
\* instead" is never reached.
C29_NoPlaceholderReachesPanner ==
    /\ [][enqueued' # enqueued =>
            transformed_window_and_pans_queue[window_midpoint + 1].left_transformed # None]_vars
    /\ [](\A i \in DOMAIN transformed_window_and_averaged_pans_queue :
             transformed_window_and_averaged_pans_queue[i].left_transformed # None)
    /\ [](\A w \in Workers :
             /\ pc[w] # "panicked"
             /\ rec[w] # None => rec[w][1].left_transformed # None)

\* C29 witness: a source long enough to be averaged has been processed to
\* the end: the first emission happened with the leading placeholders in the
\* queue, the last one with the trailing placeholders.
C29_Witness ==
    /\ AllDone
    /\ total_samples_to_write > window_size + window_midpoint + 1
    /\ Len(enqueued) >= 2
    /\ enqueued[1] = window_size
    /\ enqueued[Len(enqueued)] = total_samples_to_write - 1

\* The record with last_sample_ctr = T-1 has been moved to the panner.
LastTransformMoved ==
    \E i \in DOMAIN enqueued : enqueued[i] = total_samples_to_write - 1

\* C30: once the record with last_sample_ctr = T-1 has been moved to the
\* panner, the averager queue is empty and stays empty, and no later call of
\* enqueue_and_average moves any further record to the panner.
C30_NothingAfterLastTransform ==
    /\ [](LastTransformMoved => transformed_window_and_pans_queue = <<>>)
    /\ [][LastTransformMoved =>
            /\ enqueued' = enqueued
            /\ transformed_window_and_pans_queue' = <<>>]_vars

\* C30 witness: after the last record was moved, another call of
\* enqueue_and_average has taken the mutex, drained the staging map and
\* stands at the averaging loop.
C30_Witness ==
    /\ LastTransformMoved
    /\ \E w \in Workers : pc[w] = "emit" /\ enqueue_and_average_state = w

\* ------------------------------------------- PanningAverager::new, alone
\* Mutant of AveragingRange: the upper bound is lower + wavelength.
AveragingRangeOnePastEnd(size, sub_freq_ctr) ==
    LET transform_index == sub_freq_ctr + 1
        length == size \div transform_index
        extra_samples == size - length
        lower_bound == extra_samples \div 2
    IN [wavelength |-> length,
        average_last_sample_ctr_lower_bound |-> lower_bound,
        average_last_sample_ctr_upper_bound |-> lower_bound + length]

\* The body of the loop of PanningAverager::new for one sub_freq_ctr of a
\* window of the given size: what is pushed to the two vectors of bounds,
\* and the wavelength whose inverse is pushed to pan_fraction_per_frequencys.
AveragingRange(size, sub_freq_ctr) ==
    LET transform_index == sub_freq_ctr + 1
        length == size \div transform_index
        extra_samples == size - length
        lower_bound == extra_samples \div 2
    IN [wavelength |-> length,
        average_last_sample_ctr_lower_bound |-> lower_bound,
        average_last_sample_ctr_upper_bound |-> lower_bound + length - 1]

\* for sub_freq_ctr in 0..window_midpoint, for every window size of the table.
InitAveragingRange ==
    /\ NoProcess
    /\ \E i \in DOMAIN WINDOW_SIZES :
           \E sub_freq_ctr \in 0..(WINDOW_SIZES[i] \div 2 - 1) :
               arguments = <<WINDOW_SIZES[i], sub_freq_ctr>>
    /\ returned = None

CallAveragingRange ==
    /\ returned = None
    /\ returned' = Some(AveragingRange(arguments[1], arguments[2]))
    /\ UNCHANGED <<arguments, process_vars, total_samples_to_write, steering, reader_vars,
                   transformed_window_and_pans_by_sample, enqueue_and_average_state,
                   averager_vars, transformed_window_and_averaged_pans_queue,
                   writer_vars, enqueued, pc, rec, pending, exhausted>>

NextAveragingRange == CallAveragingRange

SpecAveragingRange == InitAveragingRange /\ [][NextAveragingRange]_vars

\* C31: for every window size W of the table and every bin k in 1..W/2 the
\* precomputed bounds satisfy L_k = floor(W/k) >= 2,
\* lower[k] = floor((W - L_k)/2), upper[k] = lower[k] + L_k - 1 and
\* 0 <= lower[k] <= W/2 <= upper[k] <= W-1: every queue index used by the
\* averaging loop is in range when the queue holds W records or more, and
\* each bin's window contains the emitted position W/2.
C31_BoundsInRangeAroundMidpoint ==
    returned # None =>
        LET W == arguments[1]
            k == arguments[2] + 1
            L == returned[1].wavelength
            lower == returned[1].average_last_sample_ctr_lower_bound
            upper == returned[1].average_last_sample_ctr_upper_bound
        IN /\ L = W \div k
           /\ L >= 2
           /\ lower = (W - L) \div 2
           /\ upper = lower + L - 1
           /\ 0 <= lower
           /\ lower <= W \div 2
           /\ W \div 2 <= upper
           /\ upper <= W - 1

\* C31 witness: the bounds of the lowest bin of the largest window, which
\* span the whole queue, have been computed.
C31_Witness ==
    /\ returned # None
    /\ arguments = <<WINDOW_SIZES[Len(WINDOW_SIZES)], 0>>
    /\ returned[1].average_last_sample_ctr_lower_bound = 0
    /\ returned[1].average_last_sample_ctr_upper_bound = arguments[1] - 1

\* ------------------------------------------------ the Reader's windows
\* Input sample n as the model stores it: its own index, or the zero frame
\* at or past the end of the source.
InputSample(n) == IF n < total_samples_to_write THEN n ELSE ZeroSample

\* The input samples first..last in order.
InputSamples(first, last) == [i \in 1..(last - first + 1) |-> InputSample(first + i - 1)]

\* The record holds its transforms and they were built from the W input
\* samples that end at its last_sample_ctr.
BuiltFromItsWindow(record) ==
    record.left_transformed # None =>
        record.left_transformed[1] =
            InputSamples(record.last_sample_ctr - window_size + 1, record.last_sample_ctr)

\* C32: under any interleaving of workers the record with last_sample_ctr = c
\* is built from exactly W samples per channel, the input samples c-W+1..c in
\* order (zero at or past the end of the source), and between calls each
\* ring buffer holds exactly W-1 samples.
C32_RecordBuiltFromLastWSamples ==
    /\ [](left_buffer = InputSamples(total_samples_read - window_size + 1,
                                     total_samples_read - 1))
    /\ [][\A w \in Workers :
            (pc[w] = "read" /\ pc'[w] = "insert") =>
                /\ rec'[w][1].left_transformed # None
                /\ Len(rec'[w][1].left_transformed[1]) = window_size
                /\ BuiltFromItsWindow(rec'[w][1])]_vars
    /\ [](\A w \in Workers : rec[w] # None => BuiltFromItsWindow(rec[w][1]))
    /\ [](\A c \in DOMAIN transformed_window_and_pans_by_sample :
             BuiltFromItsWindow(transformed_window_and_pans_by_sample[c]))
    /\ [](\A i \in DOMAIN transformed_window_and_pans_queue :
             BuiltFromItsWindow(transformed_window_and_pans_queue[i]))
    /\ [](\A i \in DOMAIN transformed_window_and_averaged_pans_queue :
             BuiltFromItsWindow(transformed_window_and_averaged_pans_queue[i]))

\* C32 witness: two workers have read the last two windows one after the
\* other and both are still working on their copies outside the lock.
C32_Witness ==
    /\ total_samples_to_write > window_size + 1
    /\ \E w1, w2 \in Workers :
          /\ w1 # w2
          /\ pc[w1] = "insert"
          /\ pc[w2] = "insert"
          /\ rec[w1][1].last_sample_ctr = total_samples_to_write - 2
          /\ rec[w2][1].last_sample_ctr = total_samples_to_write - 1
          /\ rec[w2][1].left_transformed[1] =
                 InputSamples(total_samples_to_write - window_size, total_samples_to_write - 1)
    /\ Len(left_buffer) = window_size - 1

\* C33: every record inserted into the staging map is moved into the
\* averager queue before the last worker terminates, even when the inserting
\* worker's own try-lock fails, on its final call too, and the lock holder
\* has already finished draining the staging map.
C33_StagingDrainedBeforeLastWorkerEnds ==
    AllDone => transformed_window_and_pans_by_sample = <<>>

\* ------------------------------------------------------- the mutexes
\* The worker loop at the grain of its lock operations.  A worker's position
\* tells which guards it holds; the records are reduced to their counters,
\* and the conditions of the averaging loop and of the logger's timer, which
\* depend on data that is not kept here, are choices.

\* Longest source of the lock model.
MaxLockedSamples == 8

\* The mutexes, named after the fields they guard.
ReaderMutex == "open_wav_reader_and_buffer"
StagingMutex == "transformed_window_and_pans_by_sample"
AveragingMutex == "enqueue_and_average_state"
DequeMutex == "transformed_window_and_averaged_pans_queue"
WriterMutex == "writer_state"
LoggingMutex == "logging_state"

\* The mutex a worker asks for with a blocking lock() at a position: a set
\* of one mutex, or of none where the worker is not in a lock() call.
WaitsFor(position) ==
    CASE position \in {"read", "log_read"} -> {ReaderMutex}
      [] position \in {"insert", "drain"} -> {StagingMutex}
      [] position \in {"enqueue", "pop"} -> {DequeMutex}
      [] position \in {"write", "log_written"} -> {WriterMutex}
      [] OTHER -> {}

\* The position of a worker once the lock() it waited for has returned.
Locked(position) ==
    CASE position = "read" -> "read_locked"
      [] position = "log_read" -> "log_read_locked"
      [] position = "insert" -> "insert_locked"
      [] position = "drain" -> "drain_locked"
      [] position = "enqueue" -> "enqueue_locked"
      [] position = "pop" -> "pop_locked"
      [] position = "write" -> "write_locked"
      [] position = "log_written" -> "log_written_locked"

\* Mutant of LocksHeld: the writer_state guard of write_samples_in_window
\* lives until log_status has returned.
LocksHeldWriterThroughLog(position) ==
    (IF position \in {"read_locked", "log_read_locked"} THEN {ReaderMutex} ELSE {})
    \cup (IF position \in {"insert_locked", "drain_locked"} THEN {StagingMutex} ELSE {})
    \cup (IF position \in {"drain", "drain_locked", "emit", "enqueue", "enqueue_locked"}
          THEN {AveragingMutex} ELSE {})
    \cup (IF position \in {"enqueue_locked", "pop_locked"} THEN {DequeMutex} ELSE {})
    \cup (IF position \in {"write_locked", "log", "log_locked", "log_read",
                           "log_read_locked", "log_written", "log_written_locked"}
          THEN {WriterMutex} ELSE {})
    \cup (IF position \in {"log_locked", "log_read", "log_read_locked", "log_written",
                           "log_written_locked"}
          THEN {LoggingMutex} ELSE {})

\* The guards alive at a position, by the scopes of the source.
LocksHeld(position) ==
    (IF position \in {"read_locked", "log_read_locked"} THEN {ReaderMutex} ELSE {})
    \cup (IF position \in {"insert_locked", "drain_locked"} THEN {StagingMutex} ELSE {})
    \cup (IF position \in {"drain", "drain_locked", "emit", "enqueue", "enqueue_locked"}
          THEN {AveragingMutex} ELSE {})
    \cup (IF position \in {"enqueue_locked", "pop_locked"} THEN {DequeMutex} ELSE {})
    \cup (IF position \in {"write_locked", "log_written_locked"} THEN {WriterMutex} ELSE {})
    \cup (IF position \in {"log_locked", "log_read", "log_read_locked", "log_written",
                           "log_written_locked"}
          THEN {LoggingMutex} ELSE {})

\* The workers that hold a mutex.
Holders(mutex) == {w \in Workers : mutex \in LocksHeld(pc[w])}

\* What the lock model does not use keeps the value it has before upmix.
lock_unused == <<fault, main_pc, exit_code, spawned, joined, flushed, call_vars,
                 total_samples_to_write, steering, stream_pos, left_buffer, pan_averages,
                 sink, enqueued>>

InitLocks ==
    /\ total_samples_to_write \in window_size..MaxLockedSamples
    /\ steering = [c \in 0..MaxSamples |-> Centred]
    /\ stream_pos = 0
    /\ total_samples_read = window_size - 1
    /\ left_buffer = <<>>
    /\ transformed_window_and_pans_by_sample = <<>>
    /\ enqueue_and_average_state = Unlocked
    /\ next_last_sample_ctr_to_enqueue = window_size - 1
    /\ transformed_window_and_pans_queue = <<>>
    /\ pan_averages = <<>>
    /\ transformed_window_and_averaged_pans_queue = <<>>
    /\ total_samples_written = 0
    /\ sink = <<>>
    /\ enqueued = <<>>
    /\ pc = [w \in Workers |-> "read"]
    /\ rec = [w \in Workers |-> None]
    /\ pending = [w \in Workers |-> <<>>]
    /\ exhausted = [w \in Workers |-> FALSE]
    /\ AllThreadsRunning
    /\ NoCall

\* Mutex::lock returns: the mutex is free and the worker takes it.
BlockingLock(w) ==
    /\ WaitsFor(pc[w]) # {}
    /\ \A mutex \in WaitsFor(pc[w]) : Holders(mutex) = {}
    /\ pc' = [pc EXCEPT ![w] = Locked(pc[w])]
    /\ UNCHANGED <<lock_unused, message, total_samples_read, transformed_window_and_pans_by_sample,
                   enqueue_and_average_state, next_last_sample_ctr_to_enqueue,
                   transformed_window_and_pans_queue,
                   transformed_window_and_averaged_pans_queue, total_samples_written,
                   rec, pending, exhausted>>

\* Reader::read_transform_and_measure_pans under the reader mutex; the guard
\* is dropped at the end of the block.
ReaderLocked(w) ==
    /\ pc[w] = "read_locked"
    /\ IF total_samples_read >= total_samples_to_write
       THEN /\ exhausted' = [exhausted EXCEPT ![w] = TRUE]
            /\ pc' = [pc EXCEPT ![w] = "average"]
            /\ UNCHANGED <<total_samples_read, rec>>
       ELSE /\ rec' = [rec EXCEPT ![w] = Some(total_samples_read)]
            /\ total_samples_read' = total_samples_read + 1
            /\ pc' = [pc EXCEPT ![w] = "insert"]
            /\ UNCHANGED exhausted
    /\ UNCHANGED <<lock_unused, message, transformed_window_and_pans_by_sample,
                   enqueue_and_average_state, next_last_sample_ctr_to_enqueue,
                   transformed_window_and_pans_queue,
                   transformed_window_and_averaged_pans_queue, total_samples_written,
                   pending>>

\* enqueue_transformed_window_and_pans under the staging mutex.
StagingLockedInsert(w) ==
    /\ pc[w] = "insert_locked"
    /\ transformed_window_and_pans_by_sample' =
           MapInsert(transformed_window_and_pans_by_sample, rec[w][1], rec[w][1])
    /\ rec' = [rec EXCEPT ![w] = None]
    /\ pc' = [pc EXCEPT ![w] = "average"]
    /\ UNCHANGED <<lock_unused, message, total_samples_read, enqueue_and_average_state,
                   next_last_sample_ctr_to_enqueue, transformed_window_and_pans_queue,
                   transformed_window_and_averaged_pans_queue, total_samples_written,
                   pending, exhausted>>

\* enqueue_and_average: try_lock either takes the averaging mutex or makes
\* the call return at once.
TryLockAveraging(w) ==
    /\ pc[w] = "average"
    /\ IF enqueue_and_average_state = Unlocked
       THEN /\ enqueue_and_average_state' = w
            /\ pc' = [pc EXCEPT ![w] = "drain"]
       ELSE /\ UNCHANGED enqueue_and_average_state
            /\ pc' = [pc EXCEPT ![w] = "pop"]
    /\ UNCHANGED <<lock_unused, message, total_samples_read, transformed_window_and_pans_by_sample,
                   next_last_sample_ctr_to_enqueue, transformed_window_and_pans_queue,
                   transformed_window_and_averaged_pans_queue, total_samples_written,
                   rec, pending, exhausted>>

\* The 'enqueue loop on counters alone.  st = [map, next, queue].
RECURSIVE DrainStaged(_)
DrainStaged(st) ==
    IF st.next \notin DOMAIN st.map THEN st
    ELSE DrainStaged([map |-> MapRemove(st.map, st.next), next |-> st.next + 1,
                      queue |-> Append(st.queue, st.next)])

\* The 'enqueue loop under the staging mutex, inside the averaging mutex.
StagingLockedDrain(w) ==
    /\ pc[w] = "drain_locked"
    /\ LET st == DrainStaged([map |-> transformed_window_and_pans_by_sample,
                              next |-> next_last_sample_ctr_to_enqueue,
                              queue |-> transformed_window_and_pans_queue])
       IN /\ transformed_window_and_pans_by_sample' = st.map
          /\ next_last_sample_ctr_to_enqueue' = st.next
          /\ transformed_window_and_pans_queue' = st.queue
    /\ pc' = [pc EXCEPT ![w] = "emit"]
    /\ UNCHANGED <<lock_unused, message, total_samples_read, enqueue_and_average_state,
                   transformed_window_and_averaged_pans_queue, total_samples_written,
                   rec, pending, exhausted>>

\* The guard against no averaging, the end of the averaging loop or the
\* return after the last transform: the averaging mutex is released.
LeaveAveraging(w) ==
    /\ pc[w] = "emit"
    /\ enqueue_and_average_state' = Unlocked
    /\ pc' = [pc EXCEPT ![w] = "pop"]
    /\ UNCHANGED <<lock_unused, message, total_samples_read, transformed_window_and_pans_by_sample,
                   next_last_sample_ctr_to_enqueue, transformed_window_and_pans_queue,
                   transformed_window_and_averaged_pans_queue, total_samples_written,
                   rec, pending, exhausted>>

\* One more iteration of the averaging loop: PannerAndWriter::enqueue is
\* called with the averaging mutex held.
CallPannerEnqueue(w) ==
    /\ pc[w] = "emit"
    /\ transformed_window_and_pans_queue # <<>>
    /\ pc' = [pc EXCEPT ![w] = "enqueue"]
    /\ UNCHANGED <<lock_unused, message, total_samples_read, transformed_window_and_pans_by_sample,
                   enqueue_and_average_state, next_last_sample_ctr_to_enqueue,
                   transformed_window_and_pans_queue,
                   transformed_window_and_averaged_pans_queue, total_samples_written,
                   rec, pending, exhausted>>

\* PannerAndWriter::enqueue under the deque mutex, then pop_front of the
\* averager queue.
DequeLockedEnqueue(w) ==
    /\ pc[w] = "enqueue_locked"
    /\ transformed_window_and_averaged_pans_queue' =
           PannerEnqueue(transformed_window_and_averaged_pans_queue,
                         Head(transformed_window_and_pans_queue))
    /\ transformed_window_and_pans_queue' = Tail(transformed_window_and_pans_queue)
    /\ pc' = [pc EXCEPT ![w] = "emit"]
    /\ UNCHANGED <<lock_unused, message, total_samples_read, transformed_window_and_pans_by_sample,
                   enqueue_and_average_state, next_last_sample_ctr_to_enqueue,
                   total_samples_written, rec, pending, exhausted>>

\* perform_backwards_transform_and_write_samples: pop_front under the deque
\* mutex; the guard is dropped before the record is worked on.
DequeLockedPop(w) ==
    /\ pc[w] = "pop_locked"
    /\ IF transformed_window_and_averaged_pans_queue = <<>>
       THEN /\ pc' = [pc EXCEPT ![w] = IF exhausted[w] THEN "done" ELSE "read"]
            /\ UNCHANGED <<transformed_window_and_averaged_pans_queue, rec, pending>>
       ELSE /\ transformed_window_and_averaged_pans_queue' =
                   Tail(transformed_window_and_averaged_pans_queue)
            /\ rec' = [rec EXCEPT ![w] = Some(Head(transformed_window_and_averaged_pans_queue))]
            /\ pending' = [pending EXCEPT ![w] =
                   SamplesToWrite(Head(transformed_window_and_averaged_pans_queue),
                                  total_samples_to_write)]
            /\ pc' = [pc EXCEPT ![w] = "write"]
    /\ UNCHANGED <<lock_unused, message, total_samples_read, transformed_window_and_pans_by_sample,
                   enqueue_and_average_state, next_last_sample_ctr_to_enqueue,
                   transformed_window_and_pans_queue, total_samples_written, exhausted>>

\* write_samples_in_window under the writer mutex; log_status follows the
\* last call made for the record.
WriterLocked(w) ==
    /\ pc[w] = "write_locked"
    /\ total_samples_written' = total_samples_written + 1
    /\ pending' = [pending EXCEPT ![w] = Tail(pending[w])]
    /\ pc' = [pc EXCEPT ![w] = IF Tail(pending[w]) = <<>> THEN "log" ELSE "write"]
    /\ UNCHANGED <<lock_unused, message, total_samples_read, transformed_window_and_pans_by_sample,
                   enqueue_and_average_state, next_last_sample_ctr_to_enqueue,
                   transformed_window_and_pans_queue,
                   transformed_window_and_averaged_pans_queue, rec, exhausted>>

\* Logger::log_status: try_lock either takes the logging mutex or makes the
\* call return at once.
TryLockLogging(w) ==
    /\ pc[w] = "log"
    /\ rec' = [rec EXCEPT ![w] = None]
    /\ pc' = [pc EXCEPT ![w] = IF Holders(LoggingMutex) = {} THEN "log_locked" ELSE "pop"]
    /\ UNCHANGED <<lock_unused, message, total_samples_read, transformed_window_and_pans_by_sample,
                   enqueue_and_average_state, next_last_sample_ctr_to_enqueue,
                   transformed_window_and_pans_queue,
                   transformed_window_and_averaged_pans_queue, total_samples_written,
                   pending, exhausted>>

\* now < next_log: nothing is printed, the logging mutex is released.
LogNotDue(w) ==
    /\ pc[w] = "log_locked"
    /\ pc' = [pc EXCEPT ![w] = "pop"]
    /\ UNCHANGED <<lock_unused, message, total_samples_read, transformed_window_and_pans_by_sample,
                   enqueue_and_average_state, next_last_sample_ctr_to_enqueue,
                   transformed_window_and_pans_queue,
                   transformed_window_and_averaged_pans_queue, total_samples_written,
                   rec, pending, exhausted>>

\* now >= next_log: get_total_samples_read is called with the logging mutex
\* held.
LogDue(w) ==
    /\ pc[w] = "log_locked"
    /\ pc' = [pc EXCEPT ![w] = "log_read"]
    /\ UNCHANGED <<lock_unused, message, total_samples_read, transformed_window_and_pans_by_sample,
                   enqueue_and_average_state, next_last_sample_ctr_to_enqueue,
                   transformed_window_and_pans_queue,
                   transformed_window_and_averaged_pans_queue, total_samples_written,
                   rec, pending, exhausted>>

\* Reader::get_total_samples_read has read the counter; the reader guard is
\* dropped and get_total_samples_written is called.
GetTotalSamplesRead(w) ==
    /\ pc[w] = "log_read_locked"
    /\ pc' = [pc EXCEPT ![w] = "log_written"]
    /\ UNCHANGED <<lock_unused, message, total_samples_read, transformed_window_and_pans_by_sample,
                   enqueue_and_average_state, next_last_sample_ctr_to_enqueue,
                   transformed_window_and_pans_queue,
                   transformed_window_and_averaged_pans_queue, total_samples_written,
                   rec, pending, exhausted>>

\* PannerAndWriter::get_total_samples_written has read the counter; the
\* line is printed and log_status returns, which releases the logging mutex.
GetTotalSamplesWritten(w) ==
    /\ pc[w] = "log_written_locked"
    /\ message' = Some("Writing: complete, elapsed seconds, estimated total seconds")
    /\ pc' = [pc EXCEPT ![w] = "pop"]
    /\ UNCHANGED <<lock_unused, total_samples_read, transformed_window_and_pans_by_sample,
                   enqueue_and_average_state, next_last_sample_ctr_to_enqueue,
                   transformed_window_and_pans_queue,
                   transformed_window_and_averaged_pans_queue, total_samples_written,
                   rec, pending, exhausted>>

LockStep(w) ==
    \/ BlockingLock(w)
    \/ ReaderLocked(w)
    \/ StagingLockedInsert(w)
    \/ TryLockAveraging(w)
    \/ StagingLockedDrain(w)
    \/ LeaveAveraging(w)
    \/ CallPannerEnqueue(w)
    \/ DequeLockedEnqueue(w)
    \/ DequeLockedPop(w)
    \/ WriterLocked(w)
    \/ TryLockLogging(w)
    \/ LogNotDue(w)
    \/ LogDue(w)
    \/ GetTotalSamplesRead(w)
    \/ GetTotalSamplesWritten(w)

NextLocks == \E w \in Workers : LockStep(w)

SpecLocks == InitLocks /\ [][NextLocks]_vars

\* A worker that has not returned from run_upmix_thread.
Live(w) == pc[w] # "done"

\* A worker that waits in a blocking lock() for a mutex that is held.
Blocked(w) == \E mutex \in WaitsFor(pc[w]) : Holders(mutex) # {}

\* The pairs (held, asked for) of the claim.
AllowedNesting ==
    {<<AveragingMutex, StagingMutex>>, <<AveragingMutex, DequeMutex>>,
     <<LoggingMutex, ReaderMutex>>, <<LoggingMutex, WriterMutex>>}

\* C34: the pipeline is deadlock-free: in no reachable state is every live
\* worker blocked waiting for a lock.  Blocking locks are nested only as
\* averaging-state then staging-map, averaging-state then panner-deque and
\* logging-state then reader or writer-state, and no worker waits for a
\* second lock in the reverse order.
C34_NoDeadlockAndNestingOrder ==
    /\ (\E w \in Workers : Live(w)) => (\E w \in Workers : Live(w) /\ ~Blocked(w))
    /\ \A w \in Workers :
          \A held \in LocksHeld(pc[w]), asked \in WaitsFor(pc[w]) :
              <<held, asked>> \in AllowedNesting
    /\ (\E w \in Workers : Live(w)) => ENABLED NextLocks

\* C34 witness: a worker inside the averaging loop waits for the deque mutex
\* while another worker holds it to pop a record.
C34_Witness ==
    \E w1, w2 \in Workers :
        /\ pc[w1] = "enqueue"
        /\ pc[w2] = "pop_locked"
        /\ Blocked(w1)
        /\ enqueue_and_average_state = w1

\* --------------------------------------------------- the LFE filter, alone
LFE_START == 40
LFE_FULL == 20

\* Fixed-point 1.0 of a level.
LevelOne == 1000

\* The sample rates of the sources explored.
SampleRates == {8000, 11025, 16000, 22050, 32000, 44100, 48000}

\* (frequency_fraction * HALF_PI).cos() in fixed point, where
\* frequency_fraction = (frequency - LFE_FULL) / LFE_FULL lies in [0, 1) and
\* frequency = sample_rate * transform_index / size.  The cosine is taken by
\* Bhaskara's formula cos(x * pi / 2) ~ 4 (1 - x^2) / (4 + x^2), x in 1/1000.
RollOff(size, sample_rate, transform_index) ==
    LET x == (1000 * (sample_rate * transform_index - LFE_FULL * size))
                 \div (LFE_FULL * size)
    IN (4 * (1000000 - x * x)) \div ((4000000 + x * x) \div 1000)

\* The level the loop of PannerAndWriter::new computes for transform_index.
\* frequency < LFE_FULL is sample_rate * transform_index < LFE_FULL * size.
LfeLevel(size, sample_rate, transform_index) ==
    IF sample_rate * transform_index < LFE_FULL * size THEN LevelOne
    ELSE IF sample_rate * transform_index < LFE_START * size
    THEN RollOff(size, sample_rate, transform_index)
    ELSE 0

\* lfe_levels[index] as PannerAndWriter::new leaves it: 0.0 from vec!, 1.0 at
\* index 0, 0.0 at the midpoint, and what the loop over
\* 1..(window_midpoint - 2) stores at transform_index and at
\* size - transform_index.
LfeLevelAt(size, sample_rate, index) ==
    LET midpoint == size \div 2
    IN IF index = 0 THEN LevelOne
       ELSE IF index \in 1..(midpoint - 3) THEN LfeLevel(size, sample_rate, index)
       ELSE IF size - index \in 1..(midpoint - 3)
       THEN LfeLevel(size, sample_rate, size - index)
       ELSE 0

\* The factor by which the filter loop of
\* perform_backwards_transform_and_write_samples changes the amplitude of a
\* bin of the LFE spectrum: the loop runs over 1..window_midpoint and writes
\* window_ctr and size - window_ctr; the other bins keep their value.
LfeGain(size, sample_rate, bin) ==
    LET midpoint == size \div 2
    IN IF bin \in 1..(midpoint - 1) THEN LfeLevelAt(size, sample_rate, bin)
       ELSE IF size - bin \in 1..(midpoint - 1)
       THEN LfeLevelAt(size, sample_rate, size - bin)
       ELSE LevelOne

\* upmix: the window size chosen for a sample rate.
WindowSizeFor(sample_rate) == get_ideal_window_size(sample_rate \div 10)[2]

\* A source of one of the sample rates and one bin of the lower half of its
\* window, the Nyquist bin included.
InitLfe ==
    /\ NoProcess
    /\ \E sample_rate \in SampleRates :
          \E bin \in 0..(WindowSizeFor(sample_rate) \div 2) :
              arguments = <<sample_rate, bin>>
    /\ returned = None

CallLfeFilter ==
    /\ returned = None
    /\ returned' = Some([window_size |-> WindowSizeFor(arguments[1]),
                         level |-> LfeLevelAt(WindowSizeFor(arguments[1]), arguments[1],
                                              arguments[2]),
                         gain |-> LfeGain(WindowSizeFor(arguments[1]), arguments[1],
                                          arguments[2])])
    /\ UNCHANGED <<arguments, process_vars, total_samples_to_write, steering, reader_vars,
                   transformed_window_and_pans_by_sample, enqueue_and_average_state,
                   averager_vars, transformed_window_and_averaged_pans_queue,
                   writer_vars, enqueued, pc, rec, pending, exhausted>>

NextLfe == CallLfeFilter

SpecLfe == InitLfe /\ [][NextLfe]_vars

\* C35: for a 5.1 output the gain applied to the LFE spectrum is full for
\* bins below 20 Hz and zero for every bin whose frequency is at or above
\* LFE_START (40 Hz), including the Nyquist bin W/2 and the bins W/2-2 and
\* W/2-1.
C35_LfeGainFullBelowZeroAbove ==
    returned # None =>
        LET sample_rate == arguments[1]
            bin == arguments[2]
            W == returned[1].window_size
        IN /\ sample_rate * bin < LFE_FULL * W => returned[1].gain = LevelOne
           /\ sample_rate * bin >= LFE_START * W => returned[1].gain = 0

\* --------------------------------------------------- Options::parse, alone
\* Most tokens that follow the two paths on the command line.
MaxOptionTokens == 4

\* The tokens a command line is made of, after the program name and the paths.
OptionTokens ==
    {"-channels", "-matrix", "-low", "-threads", "-bogus",
     "4", "5.1", "7.1", "rm", "20", "41", "0.5", "abc", "nan"}

\* An f32, in tenths, or NaN.
F32(tenths) == [nan |-> FALSE, tenths |-> tenths]
NaN == [nan |-> TRUE, tenths |-> 0]

\* a < b and a > b on f32: false whenever one side is NaN.
F32Less(a, b) == ~a.nan /\ ~b.nan /\ a.tenths < b.tenths
F32Greater(a, b) == ~a.nan /\ ~b.nan /\ a.tenths > b.tenths

\* str::parse::<f32> on the tokens: decimal numbers, and "nan", which the
\* standard library accepts and turns into NaN.
ParseF32(string) ==
    CASE string = "4" -> Ok(F32(40))
      [] string = "5.1" -> Ok(F32(51))
      [] string = "7.1" -> Ok(F32(71))
      [] string = "20" -> Ok(F32(200))
      [] string = "41" -> Ok(F32(410))
      [] string = "0.5" -> Ok(F32(5))
      [] string = "nan" -> Ok(NaN)
      [] OTHER -> Err("ParseFloatError")

\* str::parse::<usize> on the tokens.
ParseUsize(string) ==
    CASE string = "4" -> Ok(4)
      [] string = "20" -> Ok(20)
      [] string = "41" -> Ok(41)
      [] OTHER -> Err("ParseIntError")

\* What parse has collected before the flags are read.
DefaultOptions ==
    [num_threads |-> None, channel_layout |-> "FiveOne", matrix_format |-> "Default",
     low_frequency |-> F32(200)]

\* "No more flags left, interpret the options and return them".
InterpretOptions(collected) ==
    LET layout == CHOOSE l \in ChannelLayouts : l.name = collected.channel_layout
    IN IF F32Greater(collected.low_frequency, F32(10 * LFE_START)) /\ layout.low_frequency
       THEN None
       ELSE Some([num_threads |-> collected.num_threads,
                  channel_layout |-> collected.channel_layout,
                  transform_mono |-> layout.transform_mono,
                  low_frequency_channel |-> layout.low_frequency,
                  matrix_format |-> collected.matrix_format,
                  low_frequency |-> collected.low_frequency])

\* The loop over the flags, from args[i] on (1-based).
RECURSIVE ParseFlags(_, _, _)
ParseFlags(args, i, collected) ==
    IF i > Len(args) THEN InterpretOptions(collected)
    ELSE LET flag == args[i]
             has_value == i + 1 <= Len(args)
             value == args[i + 1]
         IN IF flag = "-channels"
            THEN IF ~has_value THEN None
                 ELSE IF value = "4"
                 THEN ParseFlags(args, i + 2, [collected EXCEPT !.channel_layout = "Four"])
                 ELSE IF value = "5"
                 THEN ParseFlags(args, i + 2, [collected EXCEPT !.channel_layout = "Five"])
                 ELSE IF value = "5.1"
                 THEN ParseFlags(args, i + 2, [collected EXCEPT !.channel_layout = "FiveOne"])
                 ELSE None
            ELSE IF flag = "-matrix"
            THEN IF ~has_value THEN None
                 ELSE IF value = "default"
                 THEN ParseFlags(args, i + 2, [collected EXCEPT !.matrix_format = "Default"])
                 ELSE IF value = "rm"
                 THEN ParseFlags(args, i + 2, [collected EXCEPT !.matrix_format = "RM"])
                 ELSE IF value = "horseshoe"
                 THEN ParseFlags(args, i + 2, [collected EXCEPT !.matrix_format = "HorseShoe"])
                 ELSE None
            ELSE IF flag = "-low"
            THEN IF ~has_value THEN None
                 ELSE IF IsErr(ParseF32(value)) THEN None
                 ELSE IF F32Less(ParseF32(value)[2], F32(10)) THEN None
                 ELSE ParseFlags(args, i + 2,
                                 [collected EXCEPT !.low_frequency = ParseF32(value)[2]])
            ELSE IF flag = "-threads"
            THEN IF ~has_value THEN None
                 ELSE IF IsErr(ParseUsize(value)) THEN None
                 ELSE ParseFlags(args, i + 2,
                                 [collected EXCEPT !.num_threads = Some(ParseUsize(value)[2])])
            ELSE None

\* Options::parse on env::args(): the program name, the two paths, the flags.
parse(args) ==
    IF Len(args) < 3 THEN None
    ELSE ParseFlags(args, 4, DefaultOptions)

\* A command line: the program name alone, with one path, or with both
\* paths and some option tokens.
InitOptions ==
    /\ NoProcess
    /\ \/ arguments = <<<<"soft_matrix">>>>
       \/ arguments = <<<<"soft_matrix", "in.wav">>>>
       \/ \E n \in 0..MaxOptionTokens :
             \E tokens \in [1..n -> OptionTokens] :
                 arguments = <<<<"soft_matrix", "in.wav", "out.wav">> \o tokens>>
    /\ returned = None

CallParse ==
    /\ returned = None
    /\ returned' = Some(parse(arguments[1]))
    /\ UNCHANGED <<arguments, process_vars, total_samples_to_write, steering, reader_vars,
                   transformed_window_and_pans_by_sample, enqueue_and_average_state,
                   averager_vars, transformed_window_and_averaged_pans_queue,
                   writer_vars, enqueued, pc, rec, pending, exhausted>>

NextOptions == CallParse

SpecOptions == InitOptions /\ [][NextOptions]_vars

\* The tokens after the paths, and the (flag, value) pairs they form when
\* every flag takes one value.
FlagTokens(args) == SubSeq(args, 4, Len(args))
FlagAt(args, j) == FlagTokens(args)[2 * j - 1]
ValueAt(args, j) == FlagTokens(args)[2 * j]
PairsOf(args) == 1..(Len(FlagTokens(args)) \div 2)

\* The tokens that are decimal numbers.
Numeric == {"4", "5.1", "7.1", "20", "41", "0.5"}

\* The value of the last -low on the command line is above LFE_START, and
\* the layout in force (the last -channels, 5.1 without one) has an LFE.
LfeAboveStart(args) ==
    /\ \E j \in PairsOf(args) :
          /\ FlagAt(args, j) = "-low"
          /\ ValueAt(args, j) \in {"41"}
          /\ \A i \in PairsOf(args) : i > j => FlagAt(args, i) # "-low"
    /\ \A j \in PairsOf(args) :
          (FlagAt(args, j) = "-channels"
              /\ \A i \in PairsOf(args) : i > j => FlagAt(args, i) # "-channels")
          => ValueAt(args, j) = "5.1"

\* C36: Options::parse returns no options for fewer than two positional
\* arguments, an unknown flag, a flag missing its argument, an unknown
\* -channels value, a -low value that is non-numeric or below 1, and an LFE
\* layout combined with -low above LFE_START (40 Hz); with no flags it yields
\* the 5.1 layout with transform_mono set and low frequency 20.
C36_ParseRejectsBadCommandLines ==
    returned # None =>
        LET args == arguments[1]
            options == returned[1]
        IN /\ Len(args) < 3 => options = None
           /\ Len(args) >= 3 =>
                /\ (\E j \in 1..((Len(FlagTokens(args)) + 1) \div 2) :
                       FlagAt(args, j) \notin {"-channels", "-matrix", "-low", "-threads"})
                       => options = None
                /\ Len(FlagTokens(args)) % 2 = 1 => options = None
                /\ (\E j \in PairsOf(args) :
                       FlagAt(args, j) = "-channels" /\ ValueAt(args, j) \notin {"4", "5", "5.1"})
                       => options = None
                /\ (\E j \in PairsOf(args) :
                       /\ FlagAt(args, j) = "-low"
                       /\ \/ ValueAt(args, j) \notin Numeric
                          \/ ValueAt(args, j) = "0.5")
                       => options = None
                /\ LfeAboveStart(args) => options = None
                /\ FlagTokens(args) = <<>> =>
                       /\ options # None
                       /\ options[1].channel_layout = "FiveOne"
                       /\ options[1].transform_mono
                       /\ options[1].low_frequency = F32(200)

====
